---------------------------- MODULE Spec2Model ----------------------------
(***************************************************************************)
(* SecureClaw audit integration: the audit-runner package (runner, parser, *)
(* differ, reporter, alerter, orchestrator) and the Convex store it writes *)
(* to (audits, auditFindings, securityEvents and the HTTP actions).        *)
(*                                                                         *)
(* Strings are TLA+ strings where the code only compares or concatenates   *)
(* them, and sequences of one-character strings where the code looks       *)
(* inside them (slice, length, toUpperCase, replace).                      *)
(***************************************************************************)
EXTENDS Integers, Sequences, FiniteSets, TLC

VARIABLES
    dCur,       \* AuditDiffer.compute: currentFindings
    dScore,     \* AuditDiffer.compute: currentRiskScore
    dPrev,      \* AuditDiffer.compute: previous (Null or a previous audit)
    dOut,       \* AuditDiffer.compute: the AuditDiff returned, once computed
    sIn,        \* computeRiskScore: findings
    sOut,       \* computeRiskScore: the score returned, once computed
    nIn,        \* parser: the raw finding (scanner) or check result (custom)
    nOut,       \* parser: the NormalizedFinding returned, once computed
    auditFindings,  \* Convex table auditFindings, in insertion order
    uCalls,     \* history: the upsert mutations applied, in commit order
    audits,         \* Convex table audits, in insertion order
    securityEvents, \* Convex table securityEvents, in insertion order
    run,        \* runAudit: the locals and the position of each runner process
    nRuns,      \* history: runAudit calls started
    hAlerted,   \* history: keys alerted on as new critical, failing ever since
    hLast,      \* history: score and failing keys of the last completed run
    hClean,     \* history: no non-dry run so far failed to persist
    now,        \* Date.now() on the Convex deployment
    env,        \* process.env.CLAW_API_KEY of the Convex deployment
    resp,       \* the last HTTP request handled and its response
    fIn,        \* AuditRunner.run: the AuditConfig and the .sh files, sorted
    fOut        \* AuditRunner.run: scanner arguments and scripts run, once chosen

diffVars == <<dCur, dScore, dPrev, dOut>>
scoreVars == <<sIn, sOut>>
normVars == <<nIn, nOut>>
upsertVars == <<auditFindings, uCalls>>
filterVars == <<fIn, fOut>>
pipeVars ==
    <<audits, securityEvents, run, nRuns, hAlerted, hLast, hClean, now, env,
      resp, filterVars>>

vars == <<diffVars, scoreVars, normVars, upsertVars, pipeVars>>

\* What the runs of runAudit leave alone.
otherVars == <<diffVars, scoreVars, normVars, uCalls, now, env, resp,
      filterVars>>

\* What the calls of the store's API leave alone.
apiOther ==
    <<diffVars, scoreVars, normVars, uCalls, securityEvents, run, nRuns,
      hAlerted, hLast, hClean, env, resp, filterVars>>

(***************************************************************************)
(* Bounds of the model                                                     *)
(***************************************************************************)
MaxCur == 2         \* longest currentFindings list handed to compute
MaxPrev == 2        \* longest findings list of a previous audit
MaxScored == 5      \* longest findings list handed to computeRiskScore
MaxOver == 100      \* longest evidence: EVIDENCE_MAX_CHARS + MaxOver characters
MaxUpserts == 3     \* upsert mutations applied to the findings table
MaxRuns == 2        \* runAudit calls, one after the other
MaxAudits == 1      \* audit records created through the API
MaxClock == 2       \* latest reading of the store's clock
MaxEvents == 1      \* security events created through the API

(***************************************************************************)
(* Helpers                                                                 *)
(***************************************************************************)
Range(s) == {s[i] : i \in DOMAIN s}

SeqsUpTo(S, n) == UNION {[1..k -> S] : k \in 0..n}

Min(a, b) == IF a <= b THEN a ELSE b

(***************************************************************************)
(* types.ts                                                                *)
(***************************************************************************)
FindingSeverity == {"critical", "high", "medium", "low", "info"}
FindingSource == {"secureclaw", "custom"}

\* A NormalizedFinding, with the fields the differ, the scorer and the
\* reporter read.  evidence (an optional string, see Some and Undefined)
\* stands for every field that is not part of a key.
Finding(id, src, sev, passed, ev) ==
    [checkId |-> id, source |-> src, severity |-> sev, passed |-> passed,
     evidence |-> ev]

\* previous: PreviousAuditFindings | null
Null == [isNull |-> TRUE]
PreviousAuditFindings(id, fs, score) ==
    [isNull |-> FALSE, auditId |-> id, findings |-> fs, hostRiskScore |-> score]

(***************************************************************************)
(* differ.ts                                                               *)
(***************************************************************************)
\* Mutant: the key is the checkId alone.
MutFindingKey(f) == f.checkId

\* `${f.source}::${f.checkId}`
makeFindingKey(f) == f.source \o "::" \o f.checkId

\* findings.filter((f) => !f.passed)
FailedOf(findings) == SelectSeq(findings, LAMBDA f : ~f.passed)

\* new Set(list.map(makeFindingKey))
KeySet(findings) == {makeFindingKey(findings[i]) : i \in DOMAIN findings}

\* the loop over currentFailed, first branch
NewFindings(currentFailed, previousKeys) ==
    SelectSeq(currentFailed, LAMBDA f : makeFindingKey(f) \notin previousKeys)

\* Mutant: the else branch pushes without the key test.
MutPersistingFindings(currentFailed, previousKeys) == currentFailed

\* the loop over currentFailed, else branch
PersistingFindings(currentFailed, previousKeys) ==
    SelectSeq(currentFailed, LAMBDA f : makeFindingKey(f) \in previousKeys)

\* the loop over previousFailed
ResolvedFindings(previousFailed, currentKeys) ==
    SelectSeq(previousFailed, LAMBDA f : makeFindingKey(f) \notin currentKeys)

Criticals(findings) == SelectSeq(findings, LAMBDA f : f.severity = "critical")

\* Mutant: a first run reports no delta.
MutComputeBaseline(currentAuditId, currentFailed, currentRiskScore) ==
    [auditId |-> currentAuditId,
     previousAuditId |-> "null",
     newFindings |-> currentFailed,
     resolvedFindings |-> <<>>,
     persistingFindings |-> <<>>,
     riskScoreDelta |-> 0,
     newCriticals |-> Criticals(currentFailed)]

\* AuditDiffer.compute, the branch taken when previous is null
ComputeBaseline(currentAuditId, currentFailed, currentRiskScore) ==
    [auditId |-> currentAuditId,
     previousAuditId |-> "null",
     newFindings |-> currentFailed,
     resolvedFindings |-> <<>>,
     persistingFindings |-> <<>>,
     riskScoreDelta |-> currentRiskScore,
     newCriticals |-> Criticals(currentFailed)]

\* AuditDiffer.compute
compute(currentAuditId, currentFindings, currentRiskScore, previous) ==
    LET currentFailed == FailedOf(currentFindings) IN
    IF previous.isNull
    THEN ComputeBaseline(currentAuditId, currentFailed, currentRiskScore)
    ELSE LET previousFailed == FailedOf(previous.findings)
             currentKeys == KeySet(currentFailed)
             previousKeys == KeySet(previousFailed)
             newFindings == NewFindings(currentFailed, previousKeys)
         IN  [auditId |-> currentAuditId,
              previousAuditId |-> previous.auditId,
              newFindings |-> newFindings,
              resolvedFindings |-> ResolvedFindings(previousFailed, currentKeys),
              persistingFindings |-> PersistingFindings(currentFailed, previousKeys),
              riskScoreDelta |-> currentRiskScore - previous.hostRiskScore,
              newCriticals |-> Criticals(newFindings)]

(***************************************************************************)
(* JavaScript strings, as sequences of one-character strings               *)
(***************************************************************************)
LowerCase ==
    <<"a", "b", "c", "d", "e", "f", "g", "h", "i", "j", "k", "l", "m",
      "n", "o", "p", "q", "r", "s", "t", "u", "v", "w", "x", "y", "z">>
UpperCase ==
    <<"A", "B", "C", "D", "E", "F", "G", "H", "I", "J", "K", "L", "M",
      "N", "O", "P", "Q", "R", "S", "T", "U", "V", "W", "X", "Y", "Z">>

UpperOf(c) ==
    IF \E i \in DOMAIN LowerCase : LowerCase[i] = c
    THEN UpperCase[CHOOSE i \in DOMAIN LowerCase : LowerCase[i] = c]
    ELSE c
LowerOf(c) ==
    IF \E i \in DOMAIN UpperCase : UpperCase[i] = c
    THEN LowerCase[CHOOSE i \in DOMAIN UpperCase : UpperCase[i] = c]
    ELSE c

\* s.toUpperCase(), s.toLowerCase()
toUpperCase(s) == [i \in DOMAIN s |-> UpperOf(s[i])]
toLowerCase(s) == [i \in DOMAIN s |-> LowerOf(s[i])]

\* s.replace(/\s/g, "")
Whitespace == {" ", "\t", "\n", "\r"}
StripWhitespace(s) == SelectSeq(s, LAMBDA c : c \notin Whitespace)

\* s.replace(/[- ]/g, "_")
DashSpaceToUnderscore(s) ==
    [i \in DOMAIN s |-> IF s[i] \in {"-", " "} THEN "_" ELSE s[i]]

\* s.startsWith(prefix)
startsWith(s, prefix) ==
    Len(s) >= Len(prefix) /\ SubSeq(s, 1, Len(prefix)) = prefix

\* s.slice(0, n)
slice0(s, n) == SubSeq(s, 1, Min(n, Len(s)))

\* The string a character sequence spells (a property name, a returned code).
RECURSIVE Str(_)
Str(s) == IF s = <<>> THEN "" ELSE Head(s) \o Str(Tail(s))

\* An optional string field: undefined, or a string.
Undefined == [present |-> FALSE, text |-> <<>>]
Some(s) == [present |-> TRUE, text |-> s]

\* Truthiness of an optional string: defined and not "".
Truthy(v) == v.present /\ v.text # <<>>

\* table[key] on an object literal: an own property, else what every object
\* inherits from Object.prototype (a function or an object, truthy), else
\* undefined.
ObjectPrototypeProps ==
    {"constructor", "toString", "toLocaleString", "valueOf", "hasOwnProperty",
     "isPrototypeOf", "propertyIsEnumerable", "__proto__",
     "__defineGetter__", "__defineSetter__", "__lookupGetter__",
     "__lookupSetter__"}
HasProp(table, key) == key \in DOMAIN table \/ key \in ObjectPrototypeProps
GetProp(table, key) ==
    IF key \in DOMAIN table THEN table[key] ELSE "[inherited " \o key \o "]"

(***************************************************************************)
(* parser.ts: OWASP mapping tables, evidence truncation, normalizers       *)
(***************************************************************************)
OWASPCategory ==
    {"ASI01", "ASI02", "ASI03", "ASI04", "ASI05",
     "ASI06", "ASI07", "ASI08", "ASI09", "ASI10"}

SECURECLAW_OWASP_MAP ==
    [k \in {"SC-001", "SC-002", "SC-003", "SC-004", "SC-005"} |-> "ASI01"] @@
    [k \in {"SC-010", "SC-011", "SC-012", "SC-013"} |-> "ASI02"] @@
    [k \in {"SC-020", "SC-021", "SC-022", "SC-023", "SC-024", "SC-025"} |-> "ASI03"] @@
    [k \in {"SC-030", "SC-031", "SC-032"} |-> "ASI04"] @@
    [k \in {"SC-035", "SC-036"} |-> "ASI05"] @@
    [k \in {"SC-040", "SC-041", "SC-042", "SC-043", "SC-044", "SC-045"} |-> "ASI06"] @@
    [k \in {"SC-050", "SC-051", "SC-052", "SC-053", "SC-054"} |-> "ASI07"] @@
    [k \in {"SC-060", "SC-061", "SC-062"} |-> "ASI08"] @@
    [k \in {"SC-070", "SC-071"} |-> "ASI09"] @@
    [k \in {"SC-080", "SC-081", "SC-082"} |-> "ASI10"]

CATEGORY_OWASP_MAP ==
    [k \in {"prompt_injection", "goal_hijack", "injection", "cron_injection"}
        |-> "ASI01"] @@
    [k \in {"information_disclosure", "data_leakage", "pii_exposure"}
        |-> "ASI02"] @@
    [k \in {"secrets_exposure", "credential_exposure", "config_exposure",
            "api_key_exposure", "pii_leakage", "gateway_config",
            "gateway_exposure"} |-> "ASI03"] @@
    [k \in {"code_execution", "rce", "shell_injection"} |-> "ASI04"] @@
    [k \in {"dos", "resource_exhaustion"} |-> "ASI05"] @@
    [k \in {"file_permissions", "cognitive_file", "identity_tampering",
            "soul_file", "memory_file"} |-> "ASI06"] @@
    [k \in {"supply_chain", "clawhavoc", "skill_validation"} |-> "ASI07"] @@
    [k \in {"tool_use", "tool_abuse"} |-> "ASI08"] @@
    [k \in {"unsafe_output", "xss"} |-> "ASI09"] @@
    [k \in {"privilege_escalation", "excessive_agency", "auth"} |-> "ASI10"]

EVIDENCE_MAX_CHARS == 500

\* The suffix "...[truncated]": one horizontal-ellipsis character (U+2026,
\* written "ELLIPSIS" here) and the eleven characters of "[truncated]".
TruncationMarker ==
    <<"ELLIPSIS", "[", "t", "r", "u", "n", "c", "a", "t", "e", "d", "]">>

\* Mutant: the length test is strict.
MutTruncateEvidence(evidence) ==
    IF ~Truthy(evidence) THEN Undefined
    ELSE IF Len(evidence.text) < EVIDENCE_MAX_CHARS THEN evidence
    ELSE Some(slice0(evidence.text, EVIDENCE_MAX_CHARS) \o TruncationMarker)

\* truncateEvidence
truncateEvidence(evidence) ==
    IF ~Truthy(evidence) THEN Undefined
    ELSE IF Len(evidence.text) <= EVIDENCE_MAX_CHARS THEN evidence
    ELSE Some(slice0(evidence.text, EVIDENCE_MAX_CHARS) \o TruncationMarker)

\* inferOWASPFromSecureClawFinding
inferOWASPFromSecureClawFinding(finding) ==
    IF HasProp(SECURECLAW_OWASP_MAP, finding.id)
    THEN GetProp(SECURECLAW_OWASP_MAP, finding.id)
    ELSE
    LET normalized == StripWhitespace(toUpperCase(finding.owaspMapping.text))
        categoryKey ==
            Str(DashSpaceToUnderscore(toLowerCase(
                IF finding.category.present THEN finding.category.text ELSE <<>>)))
    IN  IF /\ Truthy(finding.owaspMapping)
           /\ startsWith(normalized, <<"A", "S", "I">>)
           /\ Len(normalized) <= 5
        THEN Str(normalized)
        ELSE IF HasProp(CATEGORY_OWASP_MAP, categoryKey)
             THEN GetProp(CATEGORY_OWASP_MAP, categoryKey)
             ELSE "ASI03"

\* normalizeSecureClawFinding (checkName, owaspName and remediation, which
\* nothing below reads, are left out)
normalizeSecureClawFinding(finding) ==
    [checkId |-> finding.id,
     source |-> "secureclaw",
     owaspCategory |-> inferOWASPFromSecureClawFinding(finding),
     category |-> IF finding.category.present
                  THEN Str(finding.category.text) ELSE "general",
     severity |-> finding.severity,
     passed |-> finding.passed,
     evidence |-> truncateEvidence(finding.evidence)]

\* normalizeCustomCheckResult: owaspCategory is copied from the script's JSON
normalizeCustomCheckResult(result) ==
    [checkId |-> result.checkId,
     source |-> "custom",
     owaspCategory |-> result.owaspCategory,
     category |-> result.category,
     severity |-> result.severity,
     passed |-> result.passed,
     evidence |-> truncateEvidence(result.evidence)]

(***************************************************************************)
(* parser.ts: risk score                                                   *)
(***************************************************************************)
\* failed.filter((f) => f.severity === sev).length
CountSeverity(failed, sev) ==
    Len(SelectSeq(failed, LAMBDA f : f.severity = sev))

\* Mutant: the sum is returned without Math.min.
MutComputeRiskScore(findings) ==
    LET failed == SelectSeq(findings, LAMBDA f : ~f.passed)
    IN  CountSeverity(failed, "critical") * 25 +
        CountSeverity(failed, "high") * 10 +
        CountSeverity(failed, "medium") * 3 +
        CountSeverity(failed, "low") * 1

\* computeRiskScore
computeRiskScore(findings) ==
    LET failed == SelectSeq(findings, LAMBDA f : ~f.passed)
        score == CountSeverity(failed, "critical") * 25 +
                 CountSeverity(failed, "high") * 10 +
                 CountSeverity(failed, "medium") * 3 +
                 CountSeverity(failed, "low") * 1
    IN  Min(100, score)

(***************************************************************************)
(* runner.ts: AuditRunner.run; parser.ts: ResultParser.parse               *)
(***************************************************************************)
\* A finding as the scanner prints it, and a result as a check script
\* prints it.
RawFinding(id, sev, passed, ev) ==
    [kind |-> "secureclaw", id |-> id, owaspMapping |-> Undefined,
     category |-> Undefined, severity |-> sev, passed |-> passed,
     evidence |-> ev]
CheckResult(id, sev, passed, ev) ==
    [kind |-> "custom", checkId |-> id, owaspCategory |-> "ASI03",
     category |-> "file_permissions", severity |-> sev, passed |-> passed,
     evidence |-> ev]

\* The SecureClawOutput a scanner prints for the given findings: it counts
\* the checks it ran and those that passed.
SecureClawOutput(findings) ==
    [isNull |-> FALSE, checksRun |-> Len(findings),
     checksPassed |-> Len(SelectSeq(findings, LAMBDA f : f.passed)),
     findings |-> findings]

\* mockSecureClawOutput for config.type = "full"
mockSecureClawOutput ==
    [isNull |-> FALSE, checksRun |-> 55, checksPassed |-> 50,
     findings |-> <<>>]

\* JSON.parse("null")
JsonNull == [kind |-> "null"]

\* What a spawned process leaves behind: its exit code and its stdout, which
\* is empty, text that is not JSON, or JSON with the given value.
Process(name, code, stdout) == [name |-> name, code |-> code, stdout |-> stdout]
EmptyStdout == [kind |-> "empty"]
TextStdout == [kind |-> "text"]
JsonStdout(value) == [kind |-> "json", value |-> value]

\* runSecureClaw: the mock output in a dry run; else the parsed stdout, or
\* null and an error when stdout is empty or no line of it parses
runSecureClaw(dryRun, scanner) ==
    IF dryRun
    THEN [output |-> mockSecureClawOutput, errors |-> <<>>]
    ELSE IF scanner.stdout.kind = "json"
    THEN [output |-> scanner.stdout.value, errors |-> <<>>]
    ELSE IF scanner.stdout.kind = "empty" /\ scanner.code # 0
    THEN [output |-> Null, errors |-> <<"SecureClaw exited">>]
    ELSE [output |-> Null, errors |-> <<"Failed to parse SecureClaw output">>]

\* runCustomChecks, the callback of one script once its process has closed
runCheck(script) ==
    IF script.code # 0
    THEN [results |-> <<>>,
          errors |-> <<"Check script " \o script.name \o " exited">>]
    ELSE IF script.stdout.kind = "empty"
    THEN [results |-> <<>>,
          errors |-> <<"Check script " \o script.name \o " produced no output">>]
    ELSE IF script.stdout.kind = "text"
    THEN [results |-> <<>>,
          errors |-> <<"Check script " \o script.name \o " produced invalid JSON">>]
    ELSE [results |-> <<script.stdout.value>>, errors |-> <<>>]

\* The callbacks push to results and errors as the processes close:
\* order[k] is the position in scripts of the k-th to close.
RECURSIVE runChecks(_, _)
runChecks(scripts, order) ==
    IF order = <<>> THEN [results |-> <<>>, errors |-> <<>>]
    ELSE LET first == runCheck(scripts[Head(order)])
             rest == runChecks(scripts, Tail(order))
         IN  [results |-> first.results \o rest.results,
              errors |-> first.errors \o rest.errors]

\* The orders in which the processes of the scripts can close.
FinishOrders(scripts) ==
    {o \in [DOMAIN scripts -> DOMAIN scripts] :
        \A i, j \in DOMAIN scripts : o[i] = o[j] => i = j}

\* runCustomChecks for config.type = "full": readdir, then every script (the
\* names come sorted); in a dry run each script is skipped
runCustomChecks(dryRun, dirReadable, scripts, order) ==
    IF ~dirReadable
    THEN [results |-> <<>>, errors |-> <<"Cannot read checks directory">>]
    ELSE IF dryRun THEN [results |-> <<>>, errors |-> <<>>]
    ELSE runChecks(scripts, order)

\* AuditRunner.run: the RawAuditOutput
AuditRunnerRun(dryRun, host, order) ==
    LET upstreamResult == runSecureClaw(dryRun, host.scanner)
        customResults == runCustomChecks(dryRun, host.dirReadable,
                                         host.scripts, order)
    IN  [secureclaw |-> upstreamResult.output,
         customChecks |-> customResults.results,
         errors |-> upstreamResult.errors \o customResults.errors]

\* ResultParser.parse: scanner findings, then custom results.  Reading a
\* property of a result that is null is a TypeError, which parse does not
\* catch.
parse(raw) ==
    LET sc == IF raw.secureclaw.isNull THEN <<>>
              ELSE [k \in DOMAIN raw.secureclaw.findings |->
                       normalizeSecureClawFinding(raw.secureclaw.findings[k])]
        threw == \E k \in DOMAIN raw.customChecks :
                     raw.customChecks[k].kind = "null"
    IN  IF threw THEN [threw |-> TRUE, findings |-> <<>>]
        ELSE [threw |-> FALSE,
              findings |-> sc \o [k \in DOMAIN raw.customChecks |->
                              normalizeCustomCheckResult(raw.customChecks[k])]]

\* ResultParser.getTotalChecksRun, getTotalChecksPassed
getTotalChecksRun(raw) ==
    (IF raw.secureclaw.isNull THEN 0 ELSE raw.secureclaw.checksRun)
        + Len(raw.customChecks)
getTotalChecksPassed(raw) ==
    (IF raw.secureclaw.isNull THEN 0 ELSE raw.secureclaw.checksPassed)
        + Len(SelectSeq(raw.customChecks, LAMBDA c : c.passed))

(***************************************************************************)
(* convex/auditFindings.ts                                                 *)
(***************************************************************************)
\* ctx.db.patch(id, {...args}): a shallow merge.  A field the arguments do
\* not carry (an optional field left undefined is not serialized) keeps the
\* stored value.
PatchFinding(doc, args) ==
    [args EXCEPT !.evidence =
        IF args.evidence.present THEN args.evidence ELSE doc.evidence] @@ doc

\* The documents of one audit with the given checkId, by position:
\* withIndex("by_audit").filter(checkId).
ExistingFor(table, args) ==
    {i \in DOMAIN table :
        table[i].auditId = args.auditId /\ table[i].checkId = args.checkId}

\* Mutant: the existing document is never looked up.
MutUpsert(table, args) == Append(table, args)

\* auditFindings.upsert: a Convex mutation, one serializable transaction
upsert(table, args) ==
    LET existing == ExistingFor(table, args) IN
    IF existing # {}
    THEN LET first == CHOOSE i \in existing : \A j \in existing : i <= j
         IN  [table EXCEPT ![first] = PatchFinding(@, args)]
    ELSE Append(table, args)

\* The mutations of one request, committed in the given order
\* (order[k] is the position in the batch of the k-th to commit).
RECURSIVE UpsertAll(_, _, _)
UpsertAll(table, batch, order) ==
    IF order = <<>> THEN table
    ELSE UpsertAll(upsert(table, batch[Head(order)]), batch, Tail(order))

\* Promise.all over body.findings: the mutations run concurrently and commit
\* in any order.
CommitOrders(batch) ==
    {o \in [DOMAIN batch -> DOMAIN batch] :
        \A i, j \in DOMAIN batch : o[i] = o[j] => i = j}

\* auditFindings.byScan with includeAll = false: the failed findings of one
\* audit
byScan(table, auditId) ==
    SelectSeq(table, LAMBDA f : f.auditId = auditId /\ ~f.passed)

\* auditFindings.forDiff: previousAuditId is optional
NoAudit == [present |-> FALSE, id |-> ""]
SomeAudit(id) == [present |-> TRUE, id |-> id]
forDiff(table, currentAuditId, previousAuditId) ==
    LET currentFindings ==
            SelectSeq(table, LAMBDA f : f.auditId = currentAuditId)
        previousFindings ==
            IF previousAuditId.present
            THEN SelectSeq(table, LAMBDA f : f.auditId = previousAuditId.id)
            ELSE <<>>
        currentCheckIds ==
            {currentFindings[k].checkId :
                k \in {j \in DOMAIN currentFindings :
                          ~currentFindings[j].passed}}
        previousCheckIds ==
            {previousFindings[k].checkId :
                k \in {j \in DOMAIN previousFindings :
                          ~previousFindings[j].passed}}
    IN  [newFindings |->
             SelectSeq(currentFindings,
                       LAMBDA f : ~f.passed /\ f.checkId \notin previousCheckIds),
         resolvedFindings |->
             SelectSeq(previousFindings,
                       LAMBDA f : ~f.passed /\ f.checkId \notin currentCheckIds),
         persistingFindings |->
             SelectSeq(currentFindings,
                       LAMBDA f : ~f.passed /\ f.checkId \in previousCheckIds)]

(***************************************************************************)
(* convex/audits.ts                                                        *)
(***************************************************************************)
\* The _id of the n-th document inserted into audits.
AuditId(n) == "audit-" \o ToString(n)

\* ctx.db.patch(id, fields): a shallow merge, the fields given replace those
\* of the document
Patch(doc, fields) == fields @@ doc

\* audits.create: ctx.db.insert("audits", {...args, status: "running"}), the
\* record holding whatever the request carries
create(table, args) ==
    Append(table,
           Patch(args, [id |-> AuditId(Len(table) + 1), status |-> "running"]))

\* Mutant: the patch is lost.
MutComplete(table, id, fields) == table

\* audits.complete: ctx.db.patch(id, {status: "complete", ...fields}),
\* whatever the status of the record
complete(table, id, fields) ==
    [n \in DOMAIN table |->
        IF table[n].id = id
        THEN Patch(table[n], Patch(fields, [status |-> "complete"]))
        ELSE table[n]]

\* audits.updateStatus: ctx.db.patch(id, {status})
updateStatus(table, id, status) ==
    [n \in DOMAIN table |->
        IF table[n].id = id THEN Patch(table[n], [status |-> status])
        ELSE table[n]]

\* audits.fail: ctx.db.patch(id, {status: "failed", finishedAt: Date.now()})
fail(table, id, t) ==
    [n \in DOMAIN table |->
        IF table[n].id = id
        THEN Patch(table[n], [status |-> "failed", finishedAt |-> t])
        ELSE table[n]]

\* audits.latest: index by_status = "complete", order desc (by creation
\* time), take 1; the position of the record, 0 for null
latest(table) ==
    LET done == {n \in DOMAIN table : table[n].status = "complete"}
    IN  IF done = {} THEN 0
        ELSE CHOOSE n \in done : \A m \in done : m <= n

(***************************************************************************)
(* convex/http-security-audit.ts, convex/securityEvents.ts                 *)
(***************************************************************************)
\* GET /api/audits/latest: {audit, findings}, both null when no audit is
\* complete
handleLatestAudit(auditsTable, findingsTable) ==
    LET n == latest(auditsTable) IN
    IF n = 0 THEN [audit |-> Null, findings |-> Null]
    ELSE [audit |-> [isNull |-> FALSE, id |-> auditsTable[n].id,
                     status |-> auditsTable[n].status,
                     hostRiskScore |-> auditsTable[n].hostRiskScore],
          findings |->
              [isNull |-> FALSE,
               list |-> LET fs == byScan(findingsTable, auditsTable[n].id)
                        IN  [k \in DOMAIN fs |->
                                Finding(fs[k].checkId, fs[k].source,
                                        fs[k].severity, fs[k].passed,
                                        fs[k].evidence)]]]

\* securityEvents.acknowledge at time t, for the document at position n
acknowledge(table, n, t) ==
    [table EXCEPT ![n] = Patch(@, [acknowledged |-> TRUE, acknowledgedAt |-> t])]

\* Mutant: the header is compared with the configured key, set or not.
MutCheckApiKey(key, expected) == key = expected

\* checkApiKey: the x-claw-api-key header (undefined when absent) against
\* process.env.CLAW_API_KEY
checkApiKey(key, expected) ==
    IF ~Truthy(expected) \/ ~Truthy(key) THEN FALSE
    ELSE key.text = expected.text

\* The aggregates of an audit record.
Aggregates ==
    {"checksRun", "checksPassed", "checksFailed", "criticalCount",
     "highCount", "mediumCount", "lowCount", "hostRiskScore",
     "newFindingsCount", "resolvedFindingsCount", "riskScoreDelta"}

\* body.field ?? d, for a field the request body may leave out
Opt(body, field, d) == IF field \in DOMAIN body THEN body[field] ELSE d

\* POST /api/audits at time t
handleCreateAudit(table, body, t) ==
    create(table,
           [a \in Aggregates |-> Opt(body, a, 0)]
               @@ [type |-> body.type, startedAt |-> Opt(body, "startedAt", t)])

\* POST /api/audit-results at time t, action "complete"
handleAuditResultsComplete(table, body, t) ==
    complete(table, body.auditId,
             [a \in Aggregates |-> Opt(body, a, 0)]
                 @@ [finishedAt |-> Opt(body, "finishedAt", t),
                     durationMs |-> Opt(body, "durationMs", 0)])

\* auditFindings.updateStatus at time t, for the document at position i
updateFindingStatus(table, i, status, t) ==
    [table EXCEPT ![i] =
        (IF status = "remediated" THEN [remediatedAt |-> t, status |-> status]
         ELSE [status |-> status]) @@ @]

\* securityEvents.create
createSecurityEvent(table, event) ==
    Append(table,
           [eventType |-> event.eventType, severity |-> event.severity,
            source |-> event.source, sourceId |-> event.sourceId,
            message |-> event.message, acknowledged |-> FALSE])

(***************************************************************************)
(* reporter.ts, alerter.ts, index.ts                                       *)
(***************************************************************************)
BATCH_SIZE == 20

\* ConvexReporter.getPreviousAuditFindings on a response
PreviousOf(res) ==
    IF res.audit.isNull \/ res.findings.isNull THEN Null
    ELSE PreviousAuditFindings(res.audit.id, res.findings.list,
                               res.audit.hostRiskScore)

\* The UpsertFindingBody of a finding: {...f, auditId, isNew, status}
UpsertArgs(audit, f, isNew) ==
    [auditId |-> audit, checkId |-> f.checkId, source |-> f.source,
     severity |-> f.severity, passed |-> f.passed, evidence |-> f.evidence,
     isNew |-> isNew, status |-> "open"]

\* ConvexReporter.upsertFindings: findingBodies
findingBodies(auditId, findings, diff) ==
    LET newCheckIds == {diff.newFindings[k].checkId :
                            k \in DOMAIN diff.newFindings}
        failed == FailedOf(findings)
    IN  [k \in DOMAIN failed |->
            UpsertArgs(auditId, failed[k], failed[k].checkId \in newCheckIds)]

\* findingBodies.slice(i, i + BATCH_SIZE)
BatchAt(bodies, i) == SubSeq(bodies, i + 1, Min(i + BATCH_SIZE, Len(bodies)))

\* index.ts: the AuditSummary fields sent to the store
Summary(checksRun, checksPassed, findings, hostRiskScore, diff) ==
    LET failed == FailedOf(findings) IN
    [checksRun |-> checksRun,
     checksPassed |-> checksPassed,
     checksFailed |-> checksRun - checksPassed,
     criticalCount |-> CountSeverity(failed, "critical"),
     highCount |-> CountSeverity(failed, "high"),
     mediumCount |-> CountSeverity(failed, "medium"),
     lowCount |-> CountSeverity(failed, "low"),
     hostRiskScore |-> hostRiskScore,
     newFindingsCount |-> Len(diff.newFindings),
     resolvedFindingsCount |-> Len(diff.resolvedFindings),
     riskScoreDelta |-> diff.riskScoreDelta]

\* alerter.ts: the event alertOnCriticals posts; the message names the new
\* critical checks
AlertEvent(diff) ==
    [eventType |-> "new_critical_finding", severity |-> "critical",
     source |-> "secureclaw", sourceId |-> diff.auditId,
     message |-> [k \in DOMAIN diff.newCriticals |->
                     diff.newCriticals[k].checkId]]

\* Two short evidence texts.
E1 == Some(<<"e", "1">>)
E2 == Some(<<"e", "2">>)

(***************************************************************************)
(* The variables of the other specifications, at rest                      *)
(***************************************************************************)
NoDiff == [computed |-> FALSE]
NoScore == [computed |-> FALSE]

DiffIdle == dCur = <<>> /\ dScore = 0 /\ dPrev = Null /\ dOut = NoDiff
ScoreIdle == sIn = <<>> /\ sOut = NoScore
NoNorm == [computed |-> FALSE]
NormIdle == nIn = [kind |-> "none"] /\ nOut = NoNorm
UpsertIdle == auditFindings = <<>> /\ uCalls = <<>>
NoFilter == [chosen |-> FALSE]
FilterIdle == fIn = [type |-> "none"] /\ fOut = NoFilter

\* The runner processes; one is enough while runs follow one another.
Runners == {"r1", "r2"}

EmptyDiff == compute("pending", <<>>, 0, Null)

\* What a run finds on the host: the scanner process, whether the checks
\* directory can be read, and the processes of the check scripts in it.
Host(findings, dirReadable, scripts) ==
    [scanner |-> Process("openclaw", 0, JsonStdout(SecureClawOutput(findings))),
     dirReadable |-> dirReadable, scripts |-> scripts]

\* runAudit before it is called: previousAudit = null, auditId = "dry-run";
\* alertPosts counts the POSTs of alertOnCriticals, exitCode is that of the
\* CLI process once it has exited, fetchFailed records that the GET of step
\* 2 failed
IdleRun ==
    [pc |-> "idle", dryRun |-> FALSE, previousAudit |-> Null,
     host |-> Host(<<>>, TRUE, <<>>),
     checksRun |-> 0, checksPassed |-> 0,
     findings |-> <<>>, hostRiskScore |-> 0, diff |-> EmptyDiff,
     auditId |-> "dry-run", i |-> 0, errors |-> <<>>, alertPosts |-> 0,
     exitCode |-> 0, fetchFailed |-> FALSE]

\* The key configured on the deployment the runner talks to; no request
\* handled yet.
ServerKey == Some(<<"k">>)
NoResponse == [endpoint |-> "none", key |-> Undefined, status |-> 0, ops |-> 0]

NoLast == [present |-> FALSE, score |-> 0, failed |-> {}]

PipeIdle ==
    /\ audits = <<>>
    /\ securityEvents = <<>>
    /\ run = [r \in Runners |-> IdleRun]
    /\ nRuns = 0
    /\ hAlerted = {}
    /\ hLast = NoLast
    /\ now = 0
    /\ hClean = TRUE
    /\ env = ServerKey
    /\ resp = NoResponse
    /\ FilterIdle

(***************************************************************************)
(* SpecDiff: AuditDiffer.compute applied to every bounded input            *)
(***************************************************************************)
\* Findings that differ in each field the differ could look at: P2 has P1's
\* key and other evidence and severity, P3 has P1's checkId under the other
\* source, P4 another checkId, P5 and P6 are passed.
DiffPool ==
    { Finding("SC-001", "secureclaw", "critical", FALSE, E1),
      Finding("SC-001", "secureclaw", "high",     FALSE, E2),
      Finding("SC-001", "custom",     "critical", FALSE, E1),
      Finding("SC-002", "secureclaw", "critical", FALSE, E1),
      Finding("SC-001", "secureclaw", "critical", TRUE,  E1),
      Finding("SC-002", "custom",     "high",     TRUE,  E2) }

DiffScores == {10, 35}
DiffPrevScores == {0, 25}

DiffInit ==
    /\ dCur \in SeqsUpTo(DiffPool, MaxCur)
    /\ dScore \in DiffScores
    /\ dPrev \in {Null} \cup
                 {PreviousAuditFindings("audit-0", fs, s) :
                      fs \in SeqsUpTo(DiffPool, MaxPrev), s \in DiffPrevScores}
    /\ dOut = NoDiff
    /\ ScoreIdle /\ NormIdle /\ UpsertIdle /\ PipeIdle

DiffCompute ==
    /\ ~dOut.computed
    /\ dOut' = [computed |-> TRUE,
                diff |-> compute("pending", dCur, dScore, dPrev)]
    /\ UNCHANGED <<dCur, dScore, dPrev, scoreVars, normVars, upsertVars, pipeVars>>

DiffNext == DiffCompute

SpecDiff == DiffInit /\ [][DiffNext]_vars

\* The failing findings of a list, in order (the claims' own reading of
\* "the current findings with passed=false").
RECURSIVE Failing(_)
Failing(fs) ==
    IF fs = <<>> THEN <<>>
    ELSE IF Head(fs).passed THEN Failing(Tail(fs))
         ELSE <<Head(fs)>> \o Failing(Tail(fs))

SameKey(f, g) == f.source = g.source /\ f.checkId = g.checkId

\* C1: newFindings and persistingFindings are disjoint, their union is
\* exactly the current findings with passed=false, no passed finding is in
\* either list and no failing finding is missing or counted twice.
C1_DiffPartition ==
    dOut.computed =>
        LET d == dOut.diff
            failing == {dCur[i] : i \in {j \in DOMAIN dCur : ~dCur[j].passed}}
        IN  /\ Range(d.newFindings) \cap Range(d.persistingFindings) = {}
            /\ Range(d.newFindings) \cup Range(d.persistingFindings) = failing
            /\ \A f \in Range(d.newFindings) \cup Range(d.persistingFindings) :
                   ~f.passed
            /\ Len(d.newFindings) + Len(d.persistingFindings)
                   = Cardinality({j \in DOMAIN dCur : ~dCur[j].passed})

C1_Witness ==
    /\ dOut.computed
    /\ dOut.diff.newFindings # <<>>
    /\ dOut.diff.persistingFindings # <<>>

C3_NoPreviousBaseline ==
    (dOut.computed /\ dPrev.isNull) =>
        /\ dOut.diff.newFindings = Failing(dCur)
        /\ dOut.diff.resolvedFindings = <<>>
        /\ dOut.diff.persistingFindings = <<>>
        /\ dOut.diff.riskScoreDelta = dScore

C3_Witness ==
    /\ dOut.computed
    /\ dPrev.isNull
    /\ dOut.diff.newFindings # <<>>
    /\ \E i \in DOMAIN dCur : dCur[i].passed
    /\ dOut.diff.riskScoreDelta > 0

(***************************************************************************)
(* SpecScore: computeRiskScore applied to every bounded findings list      *)
(***************************************************************************)
\* Failing findings of each severity and passed findings; the score reads
\* nothing but severity and passed.
ScorePool ==
    { Finding("SC-001", "secureclaw", sev, FALSE, E1) : sev \in FindingSeverity }
    \cup { Finding("SC-002", "custom", sev, TRUE, E1) : sev \in {"critical", "low"} }

ScoreInit ==
    /\ sIn \in SeqsUpTo(ScorePool, MaxScored)
    /\ sOut = NoScore
    /\ DiffIdle /\ NormIdle /\ UpsertIdle /\ PipeIdle

ScoreCompute ==
    /\ ~sOut.computed
    /\ sOut' = [computed |-> TRUE, score |-> computeRiskScore(sIn)]
    /\ UNCHANGED <<sIn, diffVars, normVars, upsertVars, pipeVars>>

ScoreNext == ScoreCompute

SpecScore == ScoreInit /\ [][ScoreNext]_vars

\* The number of findings of a list with passed=false and the given severity.
FailingCount(fs, sev) ==
    Cardinality({i \in DOMAIN fs : ~fs[i].passed /\ fs[i].severity = sev})

\* C6: computeRiskScore is min(100, 25c + 10h + 3m + l) over the numbers of
\* failing critical, high, medium and low findings; passed and info findings
\* add nothing and the result is an integer in 0..100.
C6_RiskScore ==
    sOut.computed =>
        /\ sOut.score = Min(100, 25 * FailingCount(sIn, "critical")
                                  + 10 * FailingCount(sIn, "high")
                                  + 3 * FailingCount(sIn, "medium")
                                  + FailingCount(sIn, "low"))
        /\ sOut.score \in 0..100
        /\ (sIn = <<>>) => sOut.score = 0

\* Five failing criticals beside nothing else: 125 clamped to 100.
C6_Witness ==
    /\ sOut.computed
    /\ Len(sIn) = 5
    /\ FailingCount(sIn, "critical") = 5
    /\ sOut.score = 100

(***************************************************************************)
(* SpecNorm: the two normalizers applied to bounded raw inputs             *)
(***************************************************************************)
\* Scanner ids: two of the ID table, one unknown, one that names a member of
\* Object.prototype.
NormIds == {"SC-001", "SC-050", "SC-999", "constructor"}

\* owaspMapping: absent, or "ASI02", "asi 08", "ASI99", "ASI", "ASI0100", "LLM01", "".
NormMappings ==
    {Undefined} \cup
    {Some(m) : m \in {<<"A", "S", "I", "0", "2">>,
                        <<"a", "s", "i", " ", "0", "8">>,
                        <<"A", "S", "I", "9", "9">>,
                        <<"A", "S", "I">>,
                        <<"A", "S", "I", "0", "1", "0", "0">>,
                        <<"L", "L", "M", "0", "1">>,
                        <<>>}}

\* category: absent, or "rce", "Supply-Chain", "File Permissions", "misc", "constructor".
NormCategories ==
    {Undefined} \cup
    {Some(c) : c \in {<<"r", "c", "e">>,
                        <<"S", "u", "p", "p", "l", "y", "-", "C", "h", "a", "i", "n">>,
                        <<"F", "i", "l", "e", " ", "P", "e", "r", "m", "i", "s", "s", "i", "o", "n", "s">>,
                        <<"m", "i", "s", "c">>,
                        <<"c", "o", "n", "s", "t", "r", "u", "c", "t", "o", "r">>}}

\* An evidence text of n characters whose i-th character depends on i.
Digits == <<"0", "1", "2", "3", "4", "5", "6", "7", "8", "9">>
EvidenceOfLen(n) == [i \in 1..n |-> Digits[(i % 10) + 1]]

EvidenceLens ==
    {0, 1, 10, EVIDENCE_MAX_CHARS - 1, EVIDENCE_MAX_CHARS,
     EVIDENCE_MAX_CHARS + 1, EVIDENCE_MAX_CHARS + MaxOver}

NormEvidence == {Undefined} \cup {Some(EvidenceOfLen(n)) : n \in EvidenceLens}

\* owaspCategory as a check script prints it: a code, other text, or no
\* such field (JSON.parse leaves it undefined, written "undefined" here).
CustomCategories == {"ASI03", "ASI06", "ASI11", "LLM01", "undefined"}

NormInputs ==
    [kind : {"secureclaw"}, id : NormIds, owaspMapping : NormMappings,
     category : NormCategories, severity : {"critical"}, passed : {FALSE},
     evidence : NormEvidence]
    \cup
    [kind : {"custom"}, checkId : {"custom.workspace-permissions"},
     owaspCategory : CustomCategories, category : {"file_permissions"},
     severity : {"high", "info"}, passed : BOOLEAN, evidence : NormEvidence]

NormInit ==
    /\ nIn \in NormInputs
    /\ nOut = NoNorm
    /\ DiffIdle /\ ScoreIdle /\ UpsertIdle /\ PipeIdle

\* ResultParser.parse, one scanner finding
NormalizeSecureClaw ==
    /\ ~nOut.computed
    /\ nIn.kind = "secureclaw"
    /\ nOut' = [computed |-> TRUE, finding |-> normalizeSecureClawFinding(nIn)]
    /\ UNCHANGED <<nIn, diffVars, scoreVars, upsertVars, pipeVars>>

\* ResultParser.parse, one custom check result
NormalizeCustom ==
    /\ ~nOut.computed
    /\ nIn.kind = "custom"
    /\ nOut' = [computed |-> TRUE, finding |-> normalizeCustomCheckResult(nIn)]
    /\ UNCHANGED <<nIn, diffVars, scoreVars, upsertVars, pipeVars>>

NormNext == NormalizeSecureClaw \/ NormalizeCustom

SpecNorm == NormInit /\ [][NormNext]_vars

\* C8: every normalized finding, from the scanner or from a custom check,
\* has an owaspCategory that is one of the ten codes ASI01..ASI10.
C8_CategoryTotal ==
    nOut.computed => nOut.finding.owaspCategory \in OWASPCategory

\* The category of a scanner finding under the stated precedence: the ID
\* table when the id is in it, else the mapping field when it parses as one of
\* the ten codes, else the string table for the normalized category text,
\* else ASI03.
PrecedenceCategory(f) ==
    LET code == Str(StripWhitespace(toUpperCase(f.owaspMapping.text)))
        key == Str(DashSpaceToUnderscore(toLowerCase(f.category.text)))
    IN  IF f.id \in DOMAIN SECURECLAW_OWASP_MAP THEN SECURECLAW_OWASP_MAP[f.id]
        ELSE IF f.owaspMapping.present /\ code \in OWASPCategory THEN code
        ELSE IF key \in DOMAIN CATEGORY_OWASP_MAP THEN CATEGORY_OWASP_MAP[key]
        ELSE "ASI03"

\* C9: for a scanner finding the category is chosen by strict precedence: ID
\* table, then a mapping field that parses as a valid category code, then
\* the string table for the normalized category text, then ASI03.
C9_Precedence ==
    (nOut.computed /\ nIn.kind = "secureclaw") =>
        nOut.finding.owaspCategory = PrecedenceCategory(nIn)

\* C10 as stated: evidence longer than 500 characters becomes its first 500
\* characters followed by the truncation marker; evidence of 500 characters
\* or fewer is unchanged.
C10_TruncationAsStated ==
    (nOut.computed /\ nIn.evidence.present) =>
        LET e == nIn.evidence.text
            out == nOut.finding.evidence
        IN  IF Len(e) > 500
            THEN /\ out.present
                 /\ Len(out.text) = 500 + Len(TruncationMarker)
                 /\ \A i \in 1..500 : out.text[i] = e[i]
                 /\ \A j \in 1..Len(TruncationMarker) :
                        out.text[500 + j] = TruncationMarker[j]
            ELSE out = Some(e)

\* C10 (amended): evidence longer than 500 characters becomes its first 500
\* characters followed by the truncation marker; evidence of 1 to 500
\* characters is unchanged; empty evidence becomes undefined.
C10_Truncation ==
    (nOut.computed /\ nIn.evidence.present) =>
        LET e == nIn.evidence.text
            out == nOut.finding.evidence
        IN  /\ Len(e) > 500 =>
                 /\ out.present
                 /\ Len(out.text) = 500 + Len(TruncationMarker)
                 /\ \A i \in 1..500 : out.text[i] = e[i]
                 /\ \A j \in 1..Len(TruncationMarker) :
                        out.text[500 + j] = TruncationMarker[j]
            /\ (Len(e) >= 1 /\ Len(e) <= 500) => out = Some(e)
            /\ Len(e) = 0 => out = Undefined

\* Evidence of more than 500 characters was cut, and came out 512 long.
C10_Witness ==
    /\ nOut.computed
    /\ nIn.evidence.present
    /\ Len(nIn.evidence.text) > 500
    /\ Len(nOut.finding.evidence.text) = 512

(***************************************************************************)
(* SpecUpsert: any bounded sequence of upserts on the findings table,      *)
(* single calls and the concurrent calls of one POST /api/audit-results    *)
(***************************************************************************)
\* "SC-001" is reported by both producers, "SC-002" by the scanner only.
UpsertFindings ==
    {Finding(id, src, "critical", FALSE, ev) :
        id \in {"SC-001", "SC-002"}, src \in FindingSource,
        ev \in {Undefined, E1, E2}}
UpsertPool ==
    {UpsertArgs(a, f, TRUE) :
        a \in {"audit-1", "audit-2"},
        f \in {g \in UpsertFindings :
                  g.checkId = "SC-002" => g.source = "secureclaw"}}

UpsertInit ==
    /\ auditFindings = <<>>
    /\ uCalls = <<>>
    /\ DiffIdle /\ ScoreIdle /\ NormIdle /\ PipeIdle

\* One call of the mutation auditFindings.upsert
UpsertOne ==
    \E args \in UpsertPool :
        /\ Len(uCalls) < MaxUpserts
        /\ auditFindings' = upsert(auditFindings, args)
        /\ uCalls' = Append(uCalls, args)
        /\ UNCHANGED <<diffVars, scoreVars, normVars, pipeVars>>

\* handleAuditResults, findings branch: a batch of two findings of one audit,
\* upserted concurrently
UpsertBatchOfTwo ==
    \E a, b \in UpsertPool :
        \E order \in CommitOrders(<<a, b>>) :
            /\ a.auditId = b.auditId
            /\ Len(uCalls) + 2 <= MaxUpserts
            /\ auditFindings' = UpsertAll(auditFindings, <<a, b>>, order)
            /\ uCalls' = uCalls \o <<(<<a, b>>)[order[1]], (<<a, b>>)[order[2]]>>
            /\ UNCHANGED <<diffVars, scoreVars, normVars, pipeVars>>

UpsertNext == UpsertOne \/ UpsertBatchOfTwo

SpecUpsert == UpsertInit /\ [][UpsertNext]_vars

\* The stored documents and the applied calls of one (auditId, checkId).
StoredFor(a, id) ==
    {i \in DOMAIN auditFindings :
        auditFindings[i].auditId = a /\ auditFindings[i].checkId = id}
CallsFor(a, id) ==
    {k \in DOMAIN uCalls : uCalls[k].auditId = a /\ uCalls[k].checkId = id}

AuditOutcomes ==
    LET X == RawFinding("SC-001", "critical", FALSE, E1)
        Y == CheckResult("SC-001", "critical", FALSE, E2)
        Z == RawFinding("SC-002", "high", FALSE, E1)
        Zp == RawFinding("SC-002", "high", TRUE, Undefined)
        okY == Process("a-check.sh", 0, JsonStdout(Y))
        exit1 == Process("b-check.sh", 1, EmptyStdout)
        silent == Process("a-check.sh", 0, EmptyStdout)
        text == Process("a-check.sh", 0, TextStdout)
        null == Process("a-check.sh", 0, JsonStdout(JsonNull))
    IN  {Host(<<>>, TRUE, <<>>),
         Host(<<Z>>, TRUE, <<>>),
         Host(<<X>>, TRUE, <<>>),
         Host(<<X>>, TRUE, <<okY>>),
         Host(<<X, Zp>>, TRUE, <<>>),
         Host(<<X>>, TRUE, <<okY, exit1>>),
         Host(<<Z>>, TRUE, <<text>>),
         Host(<<>>, TRUE, <<silent>>),
         Host(<<Z>>, TRUE, <<null>>),
         Host(<<X>>, FALSE, <<okY>>)}

PushError == "Failed to push results to Convex"

\* runAudit is called with config.dryRun = dry
Start(r, dry) ==
    /\ run[r].pc \in {"idle", "exited"}
    /\ nRuns < MaxRuns
    /\ nRuns' = nRuns + 1
    /\ run' = [run EXCEPT ![r] =
                  [IdleRun EXCEPT !.pc = IF dry THEN "audit" ELSE "fetch",
                                  !.dryRun = dry]]
    /\ UNCHANGED <<audits, securityEvents, auditFindings, hAlerted, hLast,
                   hClean>>
    /\ UNCHANGED otherVars

\* Step 2, reporter.getPreviousAuditFindings: the GET is answered
FetchPreviousOk(r) ==
    /\ run[r].pc = "fetch"
    /\ run' = [run EXCEPT
                  ![r].previousAudit =
                      PreviousOf(handleLatestAudit(audits, auditFindings)),
                  ![r].pc = "audit"]
    /\ UNCHANGED <<audits, securityEvents, auditFindings, nRuns, hAlerted,
                   hLast, hClean>>
    /\ UNCHANGED otherVars

\* Step 2, the GET fails: the reporter catches and returns null, so the
\* catch of runAudit never runs and no error is recorded
FetchPreviousFail(r) ==
    /\ run[r].pc = "fetch"
    /\ run' = [run EXCEPT ![r].previousAudit = Null, ![r].pc = "audit",
                          ![r].fetchFailed = TRUE]
    /\ UNCHANGED <<audits, securityEvents, auditFindings, nRuns, hAlerted,
                   hLast, hClean>>
    /\ UNCHANGED otherVars

\* Steps 3 to 5: runner.run, parser.parse, computeRiskScore, differ.compute.
\* When parse throws, runAudit throws: nothing in it catches.
RunChecks(r) ==
    \E host \in AuditOutcomes :
        \E order \in FinishOrders(host.scripts) :
            LET rawOutput == AuditRunnerRun(run[r].dryRun, host, order)
                parsed == parse(rawOutput)
                findings == parsed.findings
                hostRiskScore == computeRiskScore(findings)
            IN  /\ run[r].pc = "audit"
                /\ run' = [run EXCEPT
                              ![r].host = host,
                              ![r].errors = @ \o rawOutput.errors,
                              ![r].checksRun =
                                  IF parsed.threw THEN 0
                                  ELSE getTotalChecksRun(rawOutput),
                              ![r].checksPassed =
                                  IF parsed.threw THEN 0
                                  ELSE getTotalChecksPassed(rawOutput),
                              ![r].findings = findings,
                              ![r].hostRiskScore = hostRiskScore,
                              ![r].diff =
                                  IF parsed.threw THEN EmptyDiff
                                  ELSE compute("pending", findings,
                                               hostRiskScore,
                                               run[r].previousAudit),
                              ![r].pc = IF parsed.threw THEN "thrown"
                                        ELSE IF run[r].dryRun THEN "done"
                                        ELSE "create"]
                /\ hAlerted' = hAlerted \cap KeySet(FailedOf(findings))
                /\ UNCHANGED <<audits, securityEvents, auditFindings, nRuns,
                               hLast, hClean>>
                /\ UNCHANGED otherVars

\* Step 6, reporter.createAudit and POST /api/audits; with no failing finding
\* the loop of upsertFindings sends nothing
CreateAuditOk(r) ==
    LET summary == Summary(run[r].checksRun, run[r].checksPassed,
                           run[r].findings, run[r].hostRiskScore, run[r].diff)
        auditId == AuditId(Len(audits) + 1)
    IN  /\ run[r].pc = "create"
        /\ audits' = create(audits, summary)
        /\ run' = [run EXCEPT
                      ![r].auditId = auditId,
                      ![r].diff.auditId = auditId,
                      ![r].i = 0,
                      ![r].pc = IF FailedOf(run[r].findings) = <<>>
                                THEN "complete" ELSE "upsert"]
        /\ UNCHANGED <<securityEvents, auditFindings, nRuns, hAlerted, hLast,
                       hClean>>
        /\ UNCHANGED otherVars

\* Mutant: the catch of step 6 rethrows.
MutPushFail(r) ==
    /\ run[r].pc \in {"create", "upsert", "complete"}
    /\ run' = [run EXCEPT ![r].errors = Append(@, PushError),
                          ![r].pc = "thrown"]
    /\ hClean' = FALSE
    /\ UNCHANGED <<audits, securityEvents, auditFindings, nRuns, hAlerted,
                   hLast>>
    /\ UNCHANGED otherVars

\* A request of step 6 fails: post throws, the catch of runAudit records it
\* and the rest of the step is skipped
PushFail(r) ==
    /\ run[r].pc \in {"create", "upsert", "complete"}
    /\ run' = [run EXCEPT ![r].errors = Append(@, PushError),
                          ![r].pc = "done"]
    /\ hClean' = FALSE
    /\ UNCHANGED <<audits, securityEvents, auditFindings, nRuns, hAlerted,
                   hLast>>
    /\ UNCHANGED otherVars

\* reporter.upsertFindings, one batch, and POST /api/audit-results, findings
\* branch: the upserts of the batch commit in some order
UpsertBatchOk(r) ==
    LET bodies == findingBodies(run[r].auditId, run[r].findings, run[r].diff)
        batch == BatchAt(bodies, run[r].i)
    IN  \E order \in CommitOrders(batch) :
            /\ run[r].pc = "upsert"
            /\ auditFindings' = UpsertAll(auditFindings, batch, order)
            /\ run' = [run EXCEPT
                          ![r].i = @ + BATCH_SIZE,
                          ![r].pc = IF run[r].i + BATCH_SIZE < Len(bodies)
                                    THEN "upsert" ELSE "complete"]
            /\ UNCHANGED <<audits, securityEvents, nRuns, hAlerted, hLast,
                           hClean>>
            /\ UNCHANGED otherVars

\* reporter.completeAudit and POST /api/audit-results, action "complete"
CompleteAuditOk(r) ==
    /\ run[r].pc = "complete"
    /\ audits' = complete(audits, run[r].auditId,
                          Summary(run[r].checksRun, run[r].checksPassed,
                                  run[r].findings, run[r].hostRiskScore,
                                  run[r].diff))
    /\ run' = [run EXCEPT ![r].pc = "alert"]
    /\ hLast' = [present |-> TRUE, score |-> run[r].hostRiskScore,
                 failed |-> KeySet(FailedOf(run[r].findings))]
    /\ UNCHANGED <<securityEvents, auditFindings, nRuns, hAlerted, hClean>>
    /\ UNCHANGED otherVars

\* Step 7, alertOnCriticals with no new critical: returns at once
AlertNone(r) ==
    /\ run[r].pc = "alert"
    /\ run[r].diff.newCriticals = <<>>
    /\ run' = [run EXCEPT ![r].pc = "done"]
    /\ UNCHANGED <<audits, securityEvents, auditFindings, nRuns, hAlerted,
                   hLast, hClean>>
    /\ UNCHANGED otherVars

\* Mutant: alertOnCriticals skips the POST when the store already holds an
\* event with the same message.
MutAlertPostOk(r) ==
    LET event == AlertEvent(run[r].diff)
        known == \E n \in DOMAIN securityEvents :
                     securityEvents[n].message = event.message
    IN  /\ run[r].pc = "alert"
        /\ run[r].diff.newCriticals # <<>>
        /\ securityEvents' = IF known THEN securityEvents
                              ELSE createSecurityEvent(securityEvents, event)
        /\ run' = [run EXCEPT ![r].pc = "done",
                              ![r].alertPosts = IF known THEN @ ELSE @ + 1]
        /\ hAlerted' = hAlerted \cup KeySet(run[r].diff.newCriticals)
        /\ UNCHANGED <<audits, auditFindings, nRuns, hLast, hClean>>
        /\ UNCHANGED otherVars

\* Step 7, alertOnCriticals posts one event and POST /api/security-events
\* stores it
AlertPostOk(r) ==
    /\ run[r].pc = "alert"
    /\ run[r].diff.newCriticals # <<>>
    /\ securityEvents' =
           createSecurityEvent(securityEvents, AlertEvent(run[r].diff))
    /\ run' = [run EXCEPT ![r].pc = "done", ![r].alertPosts = @ + 1]
    /\ hAlerted' = hAlerted \cup KeySet(run[r].diff.newCriticals)
    /\ UNCHANGED <<audits, auditFindings, nRuns, hLast, hClean>>
    /\ UNCHANGED otherVars

\* Mutant: alertOnCriticals lets the failure out, into the catch of step 6.
MutAlertPostFail(r) ==
    /\ run[r].pc = "alert"
    /\ run[r].diff.newCriticals # <<>>
    /\ run' = [run EXCEPT ![r].pc = "done", ![r].alertPosts = @ + 1,
                          ![r].errors = Append(@, PushError)]
    /\ UNCHANGED <<audits, securityEvents, auditFindings, nRuns, hAlerted,
                   hLast, hClean>>
    /\ UNCHANGED otherVars

\* Step 7, the POST fails: alertOnCriticals catches and only logs
AlertPostFail(r) ==
    /\ run[r].pc = "alert"
    /\ run[r].diff.newCriticals # <<>>
    /\ run' = [run EXCEPT ![r].pc = "done", ![r].alertPosts = @ + 1]
    /\ UNCHANGED <<audits, securityEvents, auditFindings, nRuns, hAlerted,
                   hLast, hClean>>
    /\ UNCHANGED otherVars

\* Mutant: main exits with 1 when runAudit returned errors.
MutExit(r) ==
    /\ run[r].pc \in {"done", "thrown"}
    /\ run' = [run EXCEPT
                  ![r].exitCode =
                      IF run[r].pc = "thrown" THEN 1
                      ELSE IF Len(run[r].diff.newCriticals) > 0
                              /\ ~run[r].dryRun THEN 2
                      ELSE IF run[r].errors # <<>> THEN 1
                      ELSE 0,
                  ![r].pc = "exited"]
    /\ UNCHANGED <<audits, securityEvents, auditFindings, nRuns, hAlerted,
                   hLast, hClean>>
    /\ UNCHANGED otherVars

\* bin/audit.ts, main: exit 1 when runAudit threw, exit 2 for new criticals
\* in a run that is not a dry run, else the process ends with code 0 (errors
\* are only printed)
Exit(r) ==
    /\ run[r].pc \in {"done", "thrown"}
    /\ run' = [run EXCEPT
                  ![r].exitCode =
                      IF run[r].pc = "thrown" THEN 1
                      ELSE IF Len(run[r].diff.newCriticals) > 0
                              /\ ~run[r].dryRun THEN 2
                      ELSE 0,
                  ![r].pc = "exited"]
    /\ UNCHANGED <<audits, securityEvents, auditFindings, nRuns, hAlerted,
                   hLast, hClean>>
    /\ UNCHANGED otherVars

SeqInit == DiffIdle /\ ScoreIdle /\ NormIdle /\ UpsertIdle /\ PipeIdle

SeqStart == \E dry \in BOOLEAN : Start("r1", dry)

SeqNext ==
    \/ SeqStart
    \/ FetchPreviousOk("r1")
    \/ FetchPreviousFail("r1")
    \/ RunChecks("r1")
    \/ CreateAuditOk("r1")
    \/ PushFail("r1")
    \/ UpsertBatchOk("r1")
    \/ CompleteAuditOk("r1")
    \/ AlertNone("r1")
    \/ AlertPostOk("r1")
    \/ AlertPostFail("r1")
    \/ Exit("r1")

SpecSeq == SeqInit /\ [][SeqNext]_vars

\* C4: once a critical finding was reported as new and alerted on, every
\* later run in which it still fails, having failed in every run in between,
\* classifies it as persisting and not as a new critical (so no further
\* alert is posted for it).
C4_AlertSuppression ==
    \A r \in Runners :
        run[r].pc \in {"create", "upsert", "complete", "alert"} =>
            \A k \in hAlerted :
                /\ k \in KeySet(run[r].diff.persistingFindings)
                /\ k \notin KeySet(run[r].diff.newCriticals)

\* C5: over runs that follow one another and all persisted, the diff of a
\* run is taken against the last completed run: the delta is the score minus
\* that run's stored score, what failed then and not now is resolved, what
\* fails now and not then is new.
C5_DiffAgainstLastCompleted ==
    \A r \in Runners :
        (run[r].pc \in {"create", "upsert", "complete"} /\ hClean
            /\ hLast.present) =>
            LET d == run[r].diff
                cur == KeySet(FailedOf(run[r].findings))
            IN  /\ d.riskScoreDelta = run[r].hostRiskScore - hLast.score
                /\ (hLast.failed \ cur) \subseteq KeySet(d.resolvedFindings)
                /\ (cur \ hLast.failed) \subseteq KeySet(d.newFindings)

\* The scripts a run executes, and whether a script fails: non-zero exit,
\* empty stdout or stdout that is not JSON.
ExecutedScripts(rr) ==
    IF rr.dryRun \/ ~rr.host.dirReadable THEN <<>> ELSE rr.host.scripts
ScriptFails(script) ==
    script.code # 0 \/ script.stdout.kind \in {"empty", "text"}
ScriptErrors(rr) ==
    SelectSeq(rr.errors,
              LAMBDA e : \E k \in DOMAIN rr.host.scripts :
                            e \in Range(runCheck(rr.host.scripts[k]).errors))
Threw(rr) == rr.pc = "thrown" \/ (rr.pc = "exited" /\ rr.exitCode = 1)
ChecksDone(rr) == rr.pc \notin {"idle", "fetch", "audit"}
AuditStatus(id) ==
    IF \E n \in DOMAIN audits : audits[n].id = id
    THEN audits[CHOOSE n \in DOMAIN audits : audits[n].id = id].status
    ELSE "none"

\* C11: in a run that is not a dry run every executed check script gives one
\* finding (exit 0, stdout parses as JSON) or one error string (it failed),
\* a failing script gives no finding and does not abort the run, and when
\* no request to the store fails the audit record reaches status complete.
C11_CheckScriptOutcome ==
    \A r \in Runners :
        (ChecksDone(run[r]) /\ ~run[r].dryRun) =>
            LET scripts == ExecutedScripts(run[r])
                failing == {k \in DOMAIN scripts : ScriptFails(scripts[k])}
                custom == SelectSeq(run[r].findings,
                                    LAMBDA f : f.source = "custom")
            IN  /\ ~Threw(run[r])
                /\ Len(custom) = Len(scripts) - Cardinality(failing)
                /\ Len(ScriptErrors(run[r])) = Cardinality(failing)
                /\ (run[r].pc \in {"done", "exited"}
                       /\ PushError \notin Range(run[r].errors)) =>
                       AuditStatus(run[r].auditId) = "complete"

\* The alert events stored for an audit.
EventsFor(id) ==
    {n \in DOMAIN securityEvents : securityEvents[n].sourceId = id}
PushFailed(rr) == PushError \in Range(rr.errors)

\* C12: in a run that is not a dry run the alert is posted only once the
\* audit record is complete; when creating, upserting or completing failed
\* no alert is posted; after a successful completion the run posts exactly
\* one event when newCriticals is not empty (one for all of them) and none
\* when it is empty.
C12_PersistThenAlert ==
    \A r \in Runners :
        LET rr == run[r] IN
        /\ rr.alertPosts > 0 =>
               /\ ~rr.dryRun
               /\ AuditStatus(rr.auditId) = "complete"
        /\ \A n \in DOMAIN securityEvents :
               AuditStatus(securityEvents[n].sourceId) = "complete"
        /\ PushFailed(rr) =>
               /\ rr.alertPosts = 0
               /\ EventsFor(rr.auditId) = {}
        /\ (rr.pc \in {"done", "exited"} /\ ~rr.dryRun /\ ~Threw(rr)
               /\ ~PushFailed(rr)) =>
               /\ rr.alertPosts = IF rr.diff.newCriticals # <<>> THEN 1 ELSE 0
               /\ Cardinality(EventsFor(rr.auditId)) <= rr.alertPosts
               /\ \A n \in EventsFor(rr.auditId) :
                      Len(securityEvents[n].message) =
                          Len(rr.diff.newCriticals)

\* A completed run with two new criticals has posted once and one event
\* naming both is stored.
C12_Witness ==
    \E r \in Runners :
        /\ run[r].pc = "done"
        /\ AuditStatus(run[r].auditId) = "complete"
        /\ Len(run[r].diff.newCriticals) = 2
        /\ run[r].alertPosts = 1
        /\ \E n \in DOMAIN securityEvents :
               /\ EventsFor(run[r].auditId) = {n}
               /\ Len(securityEvents[n].message) = 2

\* The errors runner.run hands to a run (the check scripts closing in the
\* order of their names).
RunnerErrors(rr) ==
    AuditRunnerRun(rr.dryRun, rr.host,
                   [k \in DOMAIN rr.host.scripts |-> k]).errors

\* The diff a run computed in step 5, carrying the id the store gave.
ComputedDiff(rr) ==
    [compute("pending", rr.findings, rr.hostRiskScore, rr.previousAudit)
        EXCEPT !.auditId = IF rr.auditId = "dry-run" THEN "pending"
                           ELSE rr.auditId]

AlertFailed(rr) == rr.alertPosts = 1 /\ EventsFor(rr.auditId) = {}

\* C14: a failed alert POST does not fail the audit: the record stays
\* complete, runAudit returns, errors holds nothing for it, and the CLI exits
\* with the code of a run whose alert was stored.
C14_AlertFailureNonFatal ==
    \A r \in Runners :
        LET rr == run[r] IN
        /\ AlertFailed(rr) =>
               /\ AuditStatus(rr.auditId) = "complete"
               /\ rr.pc \in {"done", "exited"}
               /\ ~Threw(rr)
               /\ rr.errors = RunnerErrors(rr)
        /\ (rr.alertPosts = 1 /\ rr.pc = "exited") => rr.exitCode = 2

\* A run whose alert POST failed has exited with code 2, its record complete.
C14_Witness ==
    \E r \in Runners :
        /\ AlertFailed(run[r])
        /\ run[r].pc = "exited"
        /\ run[r].exitCode = 2
        /\ AuditStatus(run[r].auditId) = "complete"

Zeroed(audit) == \A a \in Aggregates : audit[a] = 0

\* C15: the audit record of a run exists, in status running, before any
\* check process is run, and a record in status running has every aggregate
\* equal to zero: the aggregates are set only by marking it complete.
C15_CreatedAtStartZeroed ==
    /\ \A r \in Runners :
           (~run[r].dryRun /\ run[r].pc \in {"audit", "create"}) =>
               AuditStatus(run[r].auditId) = "running"
    /\ \A n \in DOMAIN audits :
           audits[n].status = "running" => Zeroed(audits[n])

\* The failing findings stored for an audit id, as the dashboard reads them.
StoredFindings(id) ==
    LET fs == byScan(auditFindings, id)
    IN  [k \in DOMAIN fs |->
            Finding(fs[k].checkId, fs[k].source, fs[k].severity, fs[k].passed,
                    fs[k].evidence)]

\* C17: the criticalCount, highCount, mediumCount, lowCount, checksFailed and
\* hostRiskScore stored with a complete audit record equal the values
\* recomputed from the findings stored for its id.
C17_AggregatesMatchFindings ==
    \A n \in DOMAIN audits :
        audits[n].status = "complete" =>
            LET fs == StoredFindings(audits[n].id) IN
            /\ audits[n].criticalCount = CountSeverity(fs, "critical")
            /\ audits[n].highCount = CountSeverity(fs, "high")
            /\ audits[n].mediumCount = CountSeverity(fs, "medium")
            /\ audits[n].lowCount = CountSeverity(fs, "low")
            /\ audits[n].checksFailed = Len(fs)
            /\ audits[n].hostRiskScore = computeRiskScore(fs)

\* scripts/run-audit.sh around the CLI: under set -e a non-zero status of the
\* npx command ends the script with that status before EXIT_CODE is read;
\* else the branch for 0 runs and the script ends with the status of echo
runAuditSh(cliCode) ==
    IF cliCode # 0 THEN cliCode
    ELSE LET EXIT_CODE == cliCode
         IN  IF EXIT_CODE = 0 \/ EXIT_CODE = 2 THEN 0 ELSE EXIT_CODE

\* Whether parse throws on what the run's host gives (it does not depend on
\* the order in which the scripts close).
ParseThrows(rr) ==
    parse(AuditRunnerRun(rr.dryRun, rr.host,
                         [k \in DOMAIN rr.host.scripts |-> k])).threw

C20_UnreadableChecksDirFatal ==
    \A r \in Runners :
        (run[r].pc = "exited" /\ ~run[r].host.dirReadable) =>
            run[r].exitCode = 1

\* The summary a run reports (the CLI prints it).
RunSummary(rr) ==
    Summary(rr.checksRun, rr.checksPassed, rr.findings, rr.hostRiskScore,
            rr.diff)

\* C21: a dry run sends no request to the store (no fetch, no record, no
\* upsert, no completion, no alert), runs no scanner and no check script, has
\* an empty findings list and risk score 0, reports aggregate counts that
\* agree with the empty list, and the CLI exits with 0.
C21_DryRunFrame ==
    \A r \in Runners :
        run[r].dryRun =>
            /\ run[r].pc \notin {"fetch", "create", "upsert", "complete",
                                  "alert", "thrown"}
            /\ run[r].auditId = "dry-run"
            /\ run[r].alertPosts = 0
            /\ ChecksDone(run[r]) =>
                   /\ run[r].findings = <<>>
                   /\ run[r].hostRiskScore = 0
                   /\ ScriptErrors(run[r]) = <<>>
                   /\ \A a \in Aggregates : RunSummary(run[r])[a] = 0
            /\ run[r].pc = "exited" => run[r].exitCode = 0

\* A step of a run that was started: the process is not killed, and every
\* request it sends is answered or fails.
SeqStep ==
    \/ FetchPreviousOk("r1")
    \/ FetchPreviousFail("r1")
    \/ RunChecks("r1")
    \/ CreateAuditOk("r1")
    \/ PushFail("r1")
    \/ UpsertBatchOk("r1")
    \/ CompleteAuditOk("r1")
    \/ AlertNone("r1")
    \/ AlertPostOk("r1")
    \/ AlertPostFail("r1")
    \/ Exit("r1")

\* SpecSeq with runs that are not killed: a started run goes on to its exit.
SpecSeqFair == SeqInit /\ [][SeqNext]_vars /\ WF_vars(SeqStep)

\* C22: an audit record in status running eventually is complete or failed.
C22_RecordTerminates ==
    \A n \in 1..MaxRuns :
        (Len(audits) >= n /\ audits[n].status = "running")
            ~> (Len(audits) >= n
                   /\ audits[n].status \in {"complete", "failed"})

(***************************************************************************)
(* SpecApi: the store under the calls of any client that holds the API     *)
(* key: the HTTP actions and the public mutations, one call at a time      *)
(***************************************************************************)
\* The request bodies a client sends to POST /api/audits: only the required
\* fields, or what the runner sends for a run started at t with one failing
\* critical finding.
RunnerAggregates ==
    Summary(1, 0, <<Finding("SC-001", "secureclaw", "critical", FALSE, E1)>>,
            40, compute("pending", <<>>, 40, Null))
CreateBodies(t) ==
    {[type |-> "full"],
     [type |-> "full", startedAt |-> t] @@ RunnerAggregates}

\* The bodies sent to POST /api/audit-results with action "complete": only
\* the audit id, or what the runner sends at t for a run started at t0.
CompleteBodies(id, t0, t) ==
    {[auditId |-> id],
     [auditId |-> id, finishedAt |-> t, durationMs |-> t - t0]
         @@ RunnerAggregates}

\* The one finding clients upsert for an audit.
ApiFinding(id) ==
    UpsertArgs(id, Finding("SC-001", "secureclaw", "critical", FALSE, E1), TRUE)

ApiInit ==
    DiffIdle /\ ScoreIdle /\ NormIdle /\ UpsertIdle /\ PipeIdle

\* Time passes on the deployment.
Tick ==
    /\ now < MaxClock
    /\ now' = now + 1
    /\ UNCHANGED <<audits, auditFindings>>
    /\ UNCHANGED apiOther

\* POST /api/audits
ApiCreateAudit ==
    \E body \in CreateBodies(now) :
        /\ Len(audits) < MaxAudits
        /\ audits' = handleCreateAudit(audits, body, now)
        /\ UNCHANGED <<auditFindings, now>>
        /\ UNCHANGED apiOther

\* POST /api/audit-results, action "complete"
ApiCompleteAudit ==
    \E n \in DOMAIN audits :
        \E body \in CompleteBodies(audits[n].id, audits[n].startedAt, now) :
            /\ audits' = handleAuditResultsComplete(audits, body, now)
            /\ UNCHANGED <<auditFindings, now>>
            /\ UNCHANGED apiOther

\* POST /api/audit-results with a findings array
ApiUpsertFindings ==
    \E n \in DOMAIN audits :
        /\ auditFindings' = UpsertAll(auditFindings,
                                      <<ApiFinding(audits[n].id)>>, <<1>>)
        /\ UNCHANGED <<audits, now>>
        /\ UNCHANGED apiOther

\* PATCH /api/audit-findings with the id of a finding
ApiUpdateFinding ==
    \E i \in DOMAIN auditFindings :
        \E status \in {"acknowledged", "remediated"} :
            /\ auditFindings' =
                   updateFindingStatus(auditFindings, i, status, now)
            /\ UNCHANGED <<audits, now>>
            /\ UNCHANGED apiOther

\* PATCH /api/audit-findings with an audit id and action "update-status"
ApiUpdateAuditStatus ==
    \E n \in DOMAIN audits :
        \E status \in {"running", "complete", "failed"} :
            /\ audits' = updateStatus(audits, audits[n].id, status)
            /\ UNCHANGED <<auditFindings, now>>
            /\ UNCHANGED apiOther

\* The public mutation audits.fail
ApiFail ==
    \E n \in DOMAIN audits :
        /\ audits' = fail(audits, audits[n].id, now)
        /\ UNCHANGED <<auditFindings, now>>
        /\ UNCHANGED apiOther

ApiNext ==
    \/ Tick
    \/ ApiCreateAudit
    \/ ApiCompleteAudit
    \/ ApiUpsertFindings
    \/ ApiUpdateFinding
    \/ ApiUpdateAuditStatus
    \/ ApiFail

SpecApi == ApiInit /\ [][ApiNext]_vars

\* C16: the status of an audit record only moves from running to complete
\* or from running to failed, and no call changes a complete record: its
\* status, aggregates, risk score and timing fields stay as they are.
C16_CompleteImmutable ==
    [][\A n \in DOMAIN audits :
          /\ audits'[n].status # audits[n].status =>
                 /\ audits[n].status = "running"
                 /\ audits'[n].status \in {"complete", "failed"}
          /\ audits[n].status = "complete" => audits'[n] = audits[n]]_vars

\* Whether a record carries a field: ctx.db.patch and insert leave out what
\* they are not given.
Has(doc, field) == field \in DOMAIN doc

\* C18: in every state of the store, a record with both startedAt and
\* finishedAt set has durationMs set, equal to finishedAt - startedAt.
C18_DurationConsistent ==
    \A n \in DOMAIN audits :
        (Has(audits[n], "startedAt") /\ Has(audits[n], "finishedAt")) =>
            /\ Has(audits[n], "durationMs")
            /\ audits[n].durationMs
                   = audits[n].finishedAt - audits[n].startedAt

(***************************************************************************)
(* SpecJoin: one call of runner.run followed by parser.parse, the spawned  *)
(* processes closing one at a time                                         *)
(***************************************************************************)
\* Two hosts with three check scripts, besides those of the sequential runs.
JoinHosts ==
    LET X == RawFinding("SC-001", "critical", FALSE, E1)
        A == Process("a-check.sh", 0,
                     JsonStdout(CheckResult("CC-001", "high", FALSE, E1)))
        B == Process("b-check.sh", 1, EmptyStdout)
        C == Process("c-check.sh", 0,
                     JsonStdout(CheckResult("CC-003", "low", TRUE, Undefined)))
        T == Process("b-check.sh", 0, TextStdout)
    IN  AuditOutcomes
            \cup {Host(<<X>>, TRUE, <<A, B, C>>), Host(<<>>, TRUE, <<A, T, C>>)}

\* runner.run before it is called: closed lists the positions of the scripts
\* whose process has closed, in the order of closing
JoinIdle ==
    [pc |-> "idle", dryRun |-> FALSE, host |-> Host(<<>>, TRUE, <<>>),
     scannerClosed |-> FALSE, closed |-> <<>>, findings |-> <<>>,
     errors |-> <<>>]

JoinInit ==
    /\ DiffIdle /\ ScoreIdle /\ NormIdle /\ UpsertIdle
    /\ audits = <<>>
    /\ securityEvents = <<>>
    /\ run = [r \in Runners |-> JoinIdle]
    /\ nRuns = 0
    /\ hAlerted = {}
    /\ hLast = NoLast
    /\ hClean = TRUE
    /\ now = 0
    /\ env = ServerKey
    /\ resp = NoResponse
    /\ FilterIdle

joinOther ==
    <<diffVars, scoreVars, normVars, upsertVars, audits, securityEvents,
      nRuns, hAlerted, hLast, hClean, now, env, resp, filterVars>>

\* Mutant: the promise of run resolves with the scanner alone.
MutAllSettled(rr) == rr.scannerClosed

\* Promise.all of run over runSecureClaw and runCustomChecks, and Promise.all
\* of runCustomChecks over the scripts: every promise has resolved.  In a dry
\* run runSecureClaw awaits no process.
AllSettled(rr) ==
    /\ rr.scannerClosed
    /\ Range(rr.closed) = DOMAIN ExecutedScripts(rr)

\* runner.run is called: the scanner and the scripts are spawned
JoinLaunch(r) ==
    \E host \in JoinHosts, dry \in BOOLEAN :
        /\ run[r].pc = "idle"
        /\ run' = [run EXCEPT
                      ![r] = [JoinIdle EXCEPT !.pc = "spawned", !.host = host,
                                              !.dryRun = dry,
                                              !.scannerClosed = dry]]
        /\ UNCHANGED joinOther

\* The scanner process closes
ScannerClose(r) ==
    /\ run[r].pc # "idle"
    /\ ~run[r].scannerClosed
    /\ run' = [run EXCEPT ![r].scannerClosed = TRUE]
    /\ UNCHANGED joinOther

\* The process of one script closes and its callback runs
ScriptClose(r) ==
    \E k \in DOMAIN ExecutedScripts(run[r]) \ Range(run[r].closed) :
        /\ run[r].pc # "idle"
        /\ run' = [run EXCEPT ![r].closed = Append(@, k)]
        /\ UNCHANGED joinOther

\* await runner.run(config) resumes and parser.parse runs on what the
\* callbacks have pushed so far
JoinParse(r) ==
    LET rawOutput == AuditRunnerRun(run[r].dryRun, run[r].host, run[r].closed)
        parsed == parse(rawOutput)
    IN  /\ run[r].pc = "spawned"
        /\ AllSettled(run[r])
        /\ run' = [run EXCEPT
                      ![r].errors = rawOutput.errors,
                      ![r].findings = parsed.findings,
                      ![r].pc = IF parsed.threw THEN "thrown" ELSE "parsed"]
        /\ UNCHANGED joinOther

\* runAudit is over
JoinReturn(r) ==
    /\ run[r].pc \in {"parsed", "thrown"}
    /\ AllSettled(run[r])
    /\ run' = [run EXCEPT ![r] = JoinIdle]
    /\ UNCHANGED joinOther

JoinNext ==
    \/ JoinLaunch("r1")
    \/ ScannerClose("r1")
    \/ ScriptClose("r1")
    \/ JoinParse("r1")
    \/ JoinReturn("r1")

SpecJoin == JoinInit /\ [][JoinNext]_vars

\* C23: once the findings and errors lists are built the scanner and every
\* launched check script have finished, each launched script has its
\* finding or its error string in the lists and the scanner its findings;
\* no outcome is still to come.
C23_JoinBeforeNormalize ==
    \A r \in {"r1"} :
        LET rr == run[r]
            launched == ExecutedScripts(rr)
            custom == SelectSeq(rr.findings, LAMBDA f : f.source = "custom")
            scanner == SelectSeq(rr.findings,
                                 LAMBDA f : f.source = "secureclaw")
        IN  /\ rr.pc \in {"parsed", "thrown"} =>
                   /\ rr.scannerClosed
                   /\ Range(rr.closed) = DOMAIN launched
            /\ rr.pc = "parsed" =>
                   /\ \A k \in DOMAIN launched :
                          IF ScriptFails(launched[k])
                          THEN Range(runCheck(launched[k]).errors)
                                   \subseteq Range(rr.errors)
                          ELSE \E i \in DOMAIN custom :
                                   custom[i].checkId
                                       = launched[k].stdout.value.checkId
                   /\ Len(custom) + Len(ScriptErrors(rr)) = Len(launched)
                   /\ ~rr.dryRun =>
                          Len(scanner)
                              = Len(rr.host.scanner.stdout.value.findings)

\* The lists were built after three scripts closed, the last launched first.
C23_Witness ==
    /\ run["r1"].pc = "parsed"
    /\ run["r1"].closed = <<3, 2, 1>>
    /\ Len(run["r1"].findings) = 3
    /\ Len(run["r1"].errors) = 1

\* The scanner findings of a list all come before its custom findings.
ScannerFirst(findings) ==
    \A i, j \in DOMAIN findings :
        (findings[i].source = "custom" /\ findings[j].source = "secureclaw")
            => j < i
\* The order of the sorted script names: first to last.
NameOrder(scripts) == [k \in DOMAIN scripts |-> k]

\* C26: in the findings list of a run the scanner findings come before the
\* custom findings, and the custom findings are in the order of the sorted
\* script names, in whatever order the processes of the scripts closed.
C26_FindingOrder ==
    LET rr == run["r1"]
        launched == ExecutedScripts(rr)
    IN  rr.pc = "parsed" =>
            /\ ScannerFirst(rr.findings)
            /\ rr.findings =
                   parse(AuditRunnerRun(rr.dryRun, rr.host,
                                        NameOrder(launched))).findings

(***************************************************************************)
(* SpecAuth: the HTTP actions of http-security-audit.ts under requests     *)
(* with any x-claw-api-key header, on a deployment with or without a       *)
(* configured key                                                          *)
(***************************************************************************)
\* process.env.CLAW_API_KEY: unset, empty, or a key.
ConfiguredKeys == {Undefined, Some(<<>>), ServerKey}

\* The x-claw-api-key header of a request: absent, empty, the key, another.
Headers == {Undefined, Some(<<>>), ServerKey, Some(<<"x">>)}

AuthInit ==
    /\ DiffIdle /\ ScoreIdle /\ NormIdle /\ UpsertIdle
    /\ audits = <<>>
    /\ securityEvents = <<>>
    /\ run = [r \in Runners |-> IdleRun]
    /\ nRuns = 0
    /\ hAlerted = {}
    /\ hLast = NoLast
    /\ hClean = TRUE
    /\ now = 0
    /\ env \in ConfiguredKeys
    /\ resp = NoResponse
    /\ FilterIdle

authOther ==
    <<diffVars, scoreVars, normVars, uCalls, run, nRuns, hAlerted, hLast,
      hClean, now, env, filterVars>>

\* return unauthorized(): status 401, nothing run on the store
Unauthorized(endpoint, key) ==
    /\ resp' = [endpoint |-> endpoint, key |-> key, status |-> 401, ops |-> 0]
    /\ UNCHANGED <<audits, auditFindings, securityEvents>>

\* return json(...): status 200 after ops queries and mutations
Ok(endpoint, key, ops) ==
    resp' = [endpoint |-> endpoint, key |-> key, status |-> 200, ops |-> ops]

\* POST /api/audits
AuthCreateAudit ==
    \E key \in Headers, body \in {[type |-> "full"]} :
        /\ IF ~checkApiKey(key, env) THEN Unauthorized("audits", key)
           ELSE /\ Len(audits) < MaxAudits
                /\ audits' = handleCreateAudit(audits, body, now)
                /\ Ok("audits", key, 1)
                /\ UNCHANGED <<auditFindings, securityEvents>>
        /\ UNCHANGED authOther

\* POST /api/audit-results: the complete branch or the findings branch
AuthAuditResults ==
    \E key \in Headers, complete_ \in BOOLEAN :
        /\ IF ~checkApiKey(key, env) THEN Unauthorized("audit-results", key)
           ELSE \E n \in DOMAIN audits :
                    IF complete_
                    THEN \E body \in {[auditId |-> audits[n].id]} :
                             /\ audits' =
                                    handleAuditResultsComplete(audits, body,
                                                               now)
                             /\ Ok("audit-results", key, 1)
                             /\ UNCHANGED <<auditFindings, securityEvents>>
                    ELSE /\ auditFindings' =
                                UpsertAll(auditFindings,
                                          <<ApiFinding(audits[n].id)>>, <<1>>)
                         /\ Ok("audit-results", key, 1)
                         /\ UNCHANGED <<audits, securityEvents>>
        /\ UNCHANGED authOther

\* PATCH /api/audit-findings: a finding's status or an audit's status
AuthUpdateFinding ==
    \E key \in Headers, finding \in BOOLEAN :
        /\ IF ~checkApiKey(key, env) THEN Unauthorized("audit-findings", key)
           ELSE IF finding
           THEN \E i \in DOMAIN auditFindings :
                    /\ auditFindings' =
                           updateFindingStatus(auditFindings, i,
                                               "acknowledged", now)
                    /\ Ok("audit-findings", key, 1)
                    /\ UNCHANGED <<audits, securityEvents>>
           ELSE \E n \in DOMAIN audits :
                    /\ audits' = updateStatus(audits, audits[n].id, "failed")
                    /\ Ok("audit-findings", key, 1)
                    /\ UNCHANGED <<auditFindings, securityEvents>>
        /\ UNCHANGED authOther

\* POST /api/skill-inventory/sync: one mutation on the skill inventory
AuthSkillSync ==
    \E key \in Headers :
        /\ IF ~checkApiKey(key, env) THEN Unauthorized("skill-sync", key)
           ELSE /\ Ok("skill-sync", key, 1)
                /\ UNCHANGED <<audits, auditFindings, securityEvents>>
        /\ UNCHANGED authOther

\* GET /api/security/posture: the queries audits.stats and scans.list
AuthSecurityPosture ==
    \E key \in Headers :
        /\ IF ~checkApiKey(key, env) THEN Unauthorized("posture", key)
           ELSE /\ Ok("posture", key, 2)
                /\ UNCHANGED <<audits, auditFindings, securityEvents>>
        /\ UNCHANGED authOther

\* POST /api/security-events
AuthCreateSecurityEvent ==
    \E key \in Headers :
        /\ IF ~checkApiKey(key, env) THEN Unauthorized("security-events", key)
           ELSE /\ Len(securityEvents) < MaxEvents
                /\ securityEvents' =
                       createSecurityEvent(securityEvents,
                                           AlertEvent(EmptyDiff))
                /\ Ok("security-events", key, 1)
                /\ UNCHANGED <<audits, auditFindings>>
        /\ UNCHANGED authOther

\* PATCH /api/security-events/:id/acknowledge
AuthAcknowledgeEvent ==
    \E key \in Headers :
        /\ IF ~checkApiKey(key, env) THEN Unauthorized("acknowledge", key)
           ELSE \E n \in DOMAIN securityEvents :
                    /\ securityEvents' = acknowledge(securityEvents, n, now)
                    /\ Ok("acknowledge", key, 1)
                    /\ UNCHANGED <<audits, auditFindings>>
        /\ UNCHANGED authOther

\* GET /api/audits/latest: audits.latest, then auditFindings.byScan when an
\* audit is complete
AuthLatestAudit ==
    \E key \in Headers :
        /\ IF ~checkApiKey(key, env) THEN Unauthorized("latest", key)
           ELSE /\ Ok("latest", key, IF latest(audits) = 0 THEN 1 ELSE 2)
                /\ UNCHANGED <<audits, auditFindings, securityEvents>>
        /\ UNCHANGED authOther

AuthNext ==
    \/ AuthCreateAudit
    \/ AuthAuditResults
    \/ AuthUpdateFinding
    \/ AuthSkillSync
    \/ AuthSecurityPosture
    \/ AuthCreateSecurityEvent
    \/ AuthAcknowledgeEvent
    \/ AuthLatestAudit

SpecAuth == AuthInit /\ [][AuthNext]_vars

\* C24: a request whose x-claw-api-key header is not the configured key, or
\* any request when no key is configured, is answered 401 and runs no query
\* and no mutation: the tables stay as they are.
C24_ApiKeyGuard ==
    [][(resp'.key # env \/ env \in {Undefined, Some(<<>>)}) =>
           /\ resp'.status = 401
           /\ resp'.ops = 0
           /\ UNCHANGED <<audits, auditFindings, securityEvents>>]_vars

\* With records in every table, a request with another key was answered 401.
C24_Witness ==
    /\ env = ServerKey
    /\ audits # <<>> /\ auditFindings # <<>> /\ securityEvents # <<>>
    /\ resp.key = Some(<<"x">>)
    /\ resp.status = 401
    /\ resp.endpoint = "audit-results"

(***************************************************************************)
(* SpecConc: two runner processes call runAudit once each, in any          *)
(* interleaving, against a store that holds one completed earlier run      *)
(***************************************************************************)
\* The earlier run: one failing high finding from the scanner, persisted and
\* completed as audit-1.
EarlierFindings ==
    parse(AuditRunnerRun(FALSE,
                         Host(<<RawFinding("SC-002", "high", FALSE, E1)>>,
                              TRUE, <<>>),
                         <<>>)).findings
EarlierDiff ==
    [compute("pending", EarlierFindings, computeRiskScore(EarlierFindings),
             Null) EXCEPT !.auditId = AuditId(1)]
EarlierSummary ==
    Summary(1, 0, EarlierFindings, computeRiskScore(EarlierFindings),
            EarlierDiff)

ConcInit ==
    /\ DiffIdle /\ ScoreIdle /\ NormIdle
    /\ uCalls = <<>>
    /\ audits = complete(create(<<>>, EarlierSummary), AuditId(1),
                         EarlierSummary)
    /\ auditFindings =
           UpsertAll(<<>>,
                     findingBodies(AuditId(1), EarlierFindings, EarlierDiff),
                     <<1>>)
    /\ securityEvents = <<>>
    /\ run = [r \in Runners |-> IdleRun]
    /\ nRuns = 0
    /\ hAlerted = {}
    /\ hLast = [present |-> TRUE, score |-> computeRiskScore(EarlierFindings),
                failed |-> KeySet(FailedOf(EarlierFindings))]
    /\ hClean = TRUE
    /\ now = 0
    /\ env = ServerKey
    /\ resp = NoResponse
    /\ FilterIdle

\* A runner process that has not run yet calls runAudit: nothing looks for a
\* run in progress
ConcStart ==
    \E r \in Runners, dry \in BOOLEAN : run[r].pc = "idle" /\ Start(r, dry)
ConcFetchPreviousOk == \E r \in Runners : FetchPreviousOk(r)
ConcFetchPreviousFail == \E r \in Runners : FetchPreviousFail(r)
ConcRunChecks == \E r \in Runners : RunChecks(r)
ConcCreateAuditOk == \E r \in Runners : CreateAuditOk(r)
ConcPushFail == \E r \in Runners : PushFail(r)
ConcUpsertBatchOk == \E r \in Runners : UpsertBatchOk(r)
ConcCompleteAuditOk == \E r \in Runners : CompleteAuditOk(r)
ConcAlertNone == \E r \in Runners : AlertNone(r)
ConcAlertPostOk == \E r \in Runners : AlertPostOk(r)
ConcAlertPostFail == \E r \in Runners : AlertPostFail(r)
ConcExit == \E r \in Runners : Exit(r)

ConcNext ==
    \/ ConcStart
    \/ ConcFetchPreviousOk
    \/ ConcFetchPreviousFail
    \/ ConcRunChecks
    \/ ConcCreateAuditOk
    \/ ConcPushFail
    \/ ConcUpsertBatchOk
    \/ ConcCompleteAuditOk
    \/ ConcAlertNone
    \/ ConcAlertPostOk
    \/ ConcAlertPostFail
    \/ ConcExit

SpecConc == ConcInit /\ [][ConcNext]_vars

\* The run is between the call of runAudit and its return.
InProgress(rr) == rr.pc \notin {"idle", "exited", "thrown"}
\* The run has computed its diff.
Diffed(rr) == rr.pc \in {"create", "upsert", "complete", "alert", "done", "exited"}
\* The keys of the failing critical findings of a run that its previous
\* audit does not hold.
FreshCriticals(rr) ==
    LET failed == FailedOf(rr.findings)
        before == IF rr.previousAudit.isNull THEN {}
                  ELSE KeySet(FailedOf(rr.previousAudit.findings))
    IN  {makeFindingKey(failed[k]) :
            k \in {j \in DOMAIN failed : failed[j].severity = "critical"}}
        \ before

\* C25: nothing keeps two runs from being in progress together; two runs
\* that were given the same previous audit each classify every failing
\* critical finding that audit does not hold as new, whatever the other run
\* has stored meanwhile, and each run that completed its record has sent its
\* own alert: the events stored for the two runs are distinct events.
C25_OverlappingRunsBothAlert ==
    \A r, q \in Runners :
        LET rr == run[r]
            qq == run[q]
        IN  (/\ r # q
             /\ ~rr.dryRun /\ ~qq.dryRun
             /\ Diffed(rr) /\ Diffed(qq)
             /\ rr.previousAudit = qq.previousAudit) =>
                /\ FreshCriticals(rr) = KeySet(rr.diff.newCriticals)
                /\ FreshCriticals(rr) \cap FreshCriticals(qq) \subseteq
                       KeySet(qq.diff.newCriticals)
                /\ (/\ rr.pc \in {"done", "exited"}
                    /\ ~PushFailed(rr)
                    /\ rr.diff.newCriticals # <<>>) => rr.alertPosts = 1
                /\ EventsFor(rr.auditId) \cap EventsFor(qq.auditId) = {}

\* Both runs are in progress, both fetched audit-1, both classified SC-001
\* as a new critical, and the store holds one alert of each for it.
C25_Witness ==
    LET rr == run["r1"]
        qq == run["r2"]
    IN  /\ InProgress(rr) /\ InProgress(qq)
        /\ rr.pc = "done" /\ qq.pc = "done"
        /\ ~rr.previousAudit.isNull
        /\ rr.previousAudit = qq.previousAudit
        /\ rr.previousAudit.auditId = AuditId(1)
        /\ \E k \in KeySet(rr.diff.newCriticals) :
               k \in KeySet(qq.diff.newCriticals)
        /\ rr.alertPosts = 1 /\ qq.alertPosts = 1
        /\ Cardinality(EventsFor(rr.auditId)) = 1
        /\ Cardinality(EventsFor(qq.auditId)) = 1
        /\ rr.auditId # qq.auditId
        /\ \A n, m \in DOMAIN securityEvents :
               securityEvents[n].message = securityEvents[m].message

FetchError == "Failed to fetch previous audit"

\* C28: when the GET of the previous audit failed in a run that is not a dry
\* run, the errors list runAudit returns holds an error string for that
\* failure.
C28_FetchFailureRecorded ==
    \A r \in Runners :
        (run[r].fetchFailed /\ ~run[r].dryRun
            /\ run[r].pc \in {"done", "exited"}) =>
            FetchError \in Range(run[r].errors)

\* The run has sent every batch of upsertFindings and each was stored.
Upserted(rr) ==
    /\ ~rr.dryRun
    /\ rr.pc \in {"complete", "alert"}
           \/ (rr.pc \in {"done", "exited"} /\ ~PushFailed(rr))

\* C29: once upsertFindings of a run has returned, each failing finding
\* stored for its audit has isNew true exactly when its key (source and
\* checkId) is that of a finding of diff.newFindings, and false exactly when
\* its key is that of a finding of diff.persistingFindings.
C29_StoredIsNewMatchesDiff ==
    \A r \in Runners :
        Upserted(run[r]) =>
            \A i \in DOMAIN auditFindings :
                LET doc == auditFindings[i]
                    key == makeFindingKey(doc)
                IN  (doc.auditId = run[r].auditId /\ ~doc.passed) =>
                        /\ doc.isNew
                               = (key \in KeySet(run[r].diff.newFindings))
                        /\ ~doc.isNew
                               = (key \in KeySet(run[r].diff.persistingFindings))

\* The keys (source and checkId) of a list of findings, in its order.
KeysOf(findings) == [k \in DOMAIN findings |-> makeFindingKey(findings[k])]

\* C30: for a complete audit and an earlier complete audit, or none, the
\* query forDiff classifies the failing findings stored for them into new,
\* resolved and persisting as AuditDiffer.compute classifies the same two
\* lists of findings.
C30_ForDiffMatchesCompute ==
    \A a \in DOMAIN audits :
        \A b \in 0..(a - 1) :
            (/\ audits[a].status = "complete"
             /\ b > 0 => audits[b].status = "complete") =>
                LET shown == forDiff(auditFindings, audits[a].id,
                                     IF b = 0 THEN NoAudit
                                     ELSE SomeAudit(audits[b].id))
                    previous ==
                        IF b = 0 THEN Null
                        ELSE PreviousAuditFindings(
                                 audits[b].id, StoredFindings(audits[b].id),
                                 audits[b].hostRiskScore)
                    diff == compute(audits[a].id, StoredFindings(audits[a].id),
                                    audits[a].hostRiskScore, previous)
                IN  /\ KeysOf(shown.newFindings) = KeysOf(diff.newFindings)
                    /\ KeysOf(shown.resolvedFindings)
                           = KeysOf(diff.resolvedFindings)
                    /\ KeysOf(shown.persistingFindings)
                           = KeysOf(diff.persistingFindings)

(***************************************************************************)
(* SpecFilter: AuditRunner.run chooses the arguments of the scanner and    *)
(* the check scripts to run, for each audit type                           *)
(***************************************************************************)
\* Words of the command line and names of check scripts, as strings of
\* characters.
ArgSecureclaw ==
    <<"s", "e", "c", "u", "r", "e", "c", "l", "a", "w">>
ArgAudit ==
    <<"a", "u", "d", "i", "t">>
ArgOutput ==
    <<"-", "-", "o", "u", "t", "p", "u", "t">>
ArgJson ==
    <<"j", "s", "o", "n">>
ArgFull ==
    <<"-", "-", "f", "u", "l", "l">>
ArgModules ==
    <<"-", "-", "m", "o", "d", "u", "l", "e", "s">>
ModSupplyChain ==
    <<"s", "u", "p", "p", "l", "y", "-", "c", "h", "a", "i", "n">>
ModPermissions ==
    <<"p", "e", "r", "m", "i", "s", "s", "i", "o", "n", "s">>
ModGateway ==
    <<"g", "a", "t", "e", "w", "a", "y">>
ModConfig ==
    <<"c", "o", "n", "f", "i", "g">>
WordGit ==
    <<"g", "i", "t">>
Comma ==
    <<",">>
GatewayScript ==
    <<"g", "a", "t", "e", "w", "a", "y", "-", "a", "u", "t", "h", ".", "s",
      "h">>
GitScript ==
    <<"g", "i", "t", "-", "h", "o", "o", "k", "s", ".", "s", "h">>
SshScript ==
    <<"s", "s", "h", "-", "k", "e", "y", "s", ".", "s", "h">>
SupplyChainScript ==
    <<"s", "u", "p", "p", "l", "y", "-", "c", "h", "a", "i", "n", "-", "d",
      "e", "p", "s", ".", "s", "h">>

\* s.includes(sub)
includes(s, sub) ==
    \E i \in 1..(Len(s) - Len(sub) + 1) : SubSeq(s, i, i + Len(sub) - 1) = sub

\* list.join(sep)
RECURSIVE join(_, _)
join(list, sep) ==
    IF list = <<>> THEN <<>>
    ELSE IF Len(list) = 1 THEN list[1]
    ELSE list[1] \o sep \o join(Tail(list), sep)

\* config.modules: left out, or a list
NoModules == [present |-> FALSE, list |-> <<>>]
Modules(list) == [present |-> TRUE, list |-> list]

\* buildSecureClawArgs
buildSecureClawArgs(config) ==
    LET base == <<ArgSecureclaw, ArgAudit, ArgOutput, ArgJson>> IN
    IF config.type = "full" THEN Append(base, ArgFull)
    ELSE IF config.type = "supply-chain"
    THEN base \o <<ArgModules, ModSupplyChain>>
    ELSE IF config.type = "quick"
    THEN base \o <<ArgModules,
                   join(<<ModPermissions, ModGateway, ModConfig>>, Comma)>>
    ELSE IF config.modules.present /\ Len(config.modules.list) > 0
    THEN base \o <<ArgModules, join(config.modules.list, Comma)>>
    ELSE base

\* runCustomChecks: filteredScripts
filteredScripts(config, scripts) ==
    IF config.type = "supply-chain"
    THEN SelectSeq(scripts,
                   LAMBDA n : includes(n, ModSupplyChain) \/ includes(n, WordGit))
    ELSE scripts

\* The .sh files a checks directory can hold, sorted by name.
ScriptNames == <<GatewayScript, GitScript, SshScript, SupplyChainScript>>
Directories ==
    {SelectSeq(ScriptNames,
               LAMBDA n : \E i \in S : ScriptNames[i] = n) :
        S \in SUBSET DOMAIN ScriptNames}
AuditTypes == {"full", "supply-chain", "quick", "custom"}
ModuleLists ==
    {NoModules, Modules(<<>>), Modules(<<ModGateway>>),
     Modules(<<ModGateway, ModPermissions>>)}

NoChoice == [chosen |-> FALSE, args |-> <<>>, filtered |-> FALSE,
             scripts |-> <<>>]

FilterInit ==
    /\ DiffIdle /\ ScoreIdle /\ NormIdle /\ UpsertIdle
    /\ audits = <<>>
    /\ securityEvents = <<>>
    /\ run = [r \in Runners |-> IdleRun]
    /\ nRuns = 0
    /\ hAlerted = {}
    /\ hLast = NoLast
    /\ hClean = TRUE
    /\ now = 0
    /\ env = ServerKey
    /\ resp = NoResponse
    /\ fIn \in [type : AuditTypes, modules : ModuleLists, files : Directories]
    /\ fOut = NoChoice

filterOther ==
    <<diffVars, scoreVars, normVars, upsertVars, audits, securityEvents, run,
      nRuns, hAlerted, hLast, hClean, now, env, resp>>

\* runSecureClaw builds the arguments of the scanner
BuildArgs ==
    /\ ~fOut.chosen
    /\ fOut' = [fOut EXCEPT !.chosen = TRUE,
                            !.args = buildSecureClawArgs(fIn)]
    /\ UNCHANGED <<fIn, filterOther>>

\* runCustomChecks picks the scripts it runs
FilterScripts ==
    /\ ~fOut.filtered
    /\ fOut' = [fOut EXCEPT !.filtered = TRUE,
                            !.scripts = filteredScripts(fIn, fIn.files)]
    /\ UNCHANGED <<fIn, filterOther>>

FilterNext ==
    \/ BuildArgs
    \/ FilterScripts

SpecFilter == FilterInit /\ [][FilterNext]_vars

\* The audit type asks for a subset of the modules, and the modules asked
\* for.
Restricted(config) ==
    \/ config.type \in {"quick", "supply-chain"}
    \/ config.type = "custom" /\ config.modules.present
           /\ config.modules.list # <<>>
Scope(config) ==
    IF config.type = "quick" THEN <<ModPermissions, ModGateway, ModConfig>>
    ELSE IF config.type = "supply-chain" THEN <<ModSupplyChain>>
    ELSE config.modules.list
\* The name of a script matches the scope: it holds the name of a module
\* asked for (for supply-chain also the word git, as the code matches).
Matches(config, name) ==
    \/ \E m \in Range(Scope(config)) : includes(name, m)
    \/ config.type = "supply-chain" /\ includes(name, WordGit)

\* C27: for a restricted audit type (quick, supply-chain, custom with a
\* module list) the scripts run are exactly those of the directory whose
\* name matches the scope, a script that does not match is not run, and
\* the scanner is given --modules with the modules of the scope.
C27_ModuleFiltering ==
    (fOut.chosen /\ fOut.filtered /\ Restricted(fIn)) =>
        /\ fOut.scripts =
               SelectSeq(fIn.files, LAMBDA n : Matches(fIn, n))
        /\ fOut.args =
               <<ArgSecureclaw, ArgAudit, ArgOutput, ArgJson, ArgModules,
                 join(Scope(fIn), Comma)>>

=============================================================================
